---- MODULE Spec2Model ----
(***************************************************************************)
(* Token Alerting Service: the durable work queue (webhook_queue,          *)
(* retry_queue, failed_events), the processing worker's loop and its       *)
(* per-event handlers over the relational token store, the ingestion       *)
(* gateway's webhook handler, and the notification worker's filter and     *)
(* send budget.                                                            *)
(*                                                                         *)
(* Source: src/Token Alerting Service/processing_worker.py (worker),       *)
(*         src/Token Alerting Service/ingestion_service.py (gateway),      *)
(*         src/Token Alerting Service/notification_worker.py (notifier).   *)
(*                                                                         *)
(* Abstractions.  One token natural key ("T1" on one blockchain) and one   *)
(* pair address ("P1").  A token row keeps one column per group of columns *)
(* that the code reads and writes together: name (name, symbol,            *)
(* classification), risk_level (risk_level, buy_tax, sell_tax,             *)
(* creator_percent: all copied from the audit reply).  The columns stamped *)
(* from the job or the clock (block_number, updated_at) are left out.      *)
(* Python None is the string Null for text and three-valued columns, 0 for *)
(* a child-row id and NullNum for a number.  Child tables are row          *)
(* counters: ids 1..n exist.                                               *)
(***************************************************************************)
EXTENDS Integers, Sequences, FiniteSets, TLC

(***************************************************************************)
(* Bounds of the model and program constants.                              *)
(***************************************************************************)
NJobs == 1

MaxTime == 7

MaxRuns == 3

MAX_RETRIES == 3

RETRY_DELAY == 1

Workers == {"w1", "w2"}

EventIds == 1..NJobs

Null == "null"

NullNum == -1

TokenAddress == "T1"

PairAddress == "P1"

EventTypes == {"new_token", "new_pair", "lock_lp", "ownership_renounced"}

(***************************************************************************)
(* Jobs as the worker decodes them from webhook_queue.  lp_token is the    *)
(* transformed_data.lp_token of a lock_lp job, Null when the key is        *)
(* missing; amount is the lock transaction's share of the LP supply in     *)
(* percent.                                                                *)
(***************************************************************************)
NewJob(e, kind, lp) ==
    [event_id |-> e, event_type |-> kind,
     lp_token |-> IF kind = "lock_lp" THEN lp ELSE Null,
     amount |-> IF kind = "lock_lp" THEN 80 ELSE 0,
     retry_count |-> 0, last_retry |-> NullNum]

NoJob == NewJob(0, Null, Null)

(***************************************************************************)
(* Replies of the collaborators during one processing attempt.             *)
(*   err     "pre": an exception before the store routine (RPC, lookup);   *)
(*           "store": the relational store fails inside the store routine  *)
(*   basic   token introspection found an ERC-20                           *)
(*   source  source-verification lookup: unverified, verified, or verified *)
(*           with social links in the source ("social")                    *)
(*   audit   security audit: "fail" (raises), "ok", "scam"                 *)
(*   owner_null  the audit's owner_address is the null address             *)
(*   holders percent of LP held by locked holders in the audit snapshot    *)
(***************************************************************************)
Responses ==
    { r \in [err : {"none", "pre", "store"}, basic : BOOLEAN,
             source : {"unverified", "verified", "social"},
             audit : {"fail", "ok", "scam"}, owner_null : BOOLEAN,
             holders : {0, 50}] :
        /\ (r.err = "pre" \/ ~r.basic) =>
              (r.source = "unverified" /\ r.audit = "fail")
        /\ ~r.basic => r.err = "none"
        /\ r.err = "pre" => r.basic
        /\ r.audit # "ok" => (~r.owner_null /\ r.holders = 0)
        /\ r.audit = "ok" => (r.owner_null <=> r.holders = 50) }

(***************************************************************************)
(* The relational store: table tokens (a set of rows, unique on address)   *)
(* and the child tables source_code, gpl_audit, token_information.         *)
(***************************************************************************)
DefaultRow ==
    [address |-> Null, name |-> Null,
     contract_verified |-> Null, risk_level |-> Null, is_scam |-> Null,
     dex_pair |-> Null, is_renounced |-> Null, liquidity_locked |-> NullNum,
     source_code_id |-> 0, gpl_audit_id |-> 0, token_information_id |-> 0]

Columns == DOMAIN DefaultRow

\* A row with the columns of payload p written over row r.
Merge(r, p) == [c \in Columns |-> IF c \in DOMAIN p THEN p[c] ELSE r[c]]

\* supabase.table('tokens').select(...).eq('address', a).execute().data
SelectByAddress(tokens, a) ==
    IF \E r \in tokens : r.address = a
    THEN << CHOOSE r \in tokens : r.address = a >>
    ELSE << >>

\* supabase.table('tokens').select(...).eq('dex_pair', p).execute().data
SelectByPair(tokens, p) ==
    IF \E r \in tokens : r.dex_pair = p
    THEN << CHOOSE r \in tokens : r.dex_pair = p >>
    ELSE << >>

\* An update that replaces the matching row by the payload.
UpdateTokens_replacing_row(tokens, a, p) ==
    { IF r.address = a THEN Merge([DefaultRow EXCEPT !.address = a], p) ELSE r :
      r \in tokens }

\* supabase.table('tokens').update(p).eq('address', a).execute()
UpdateTokens(tokens, a, p) ==
    { IF r.address = a THEN Merge(r, p) ELSE r : r \in tokens }

\* An insert that meets no unique constraint on the natural key.
InsertOrUpdate_no_constraint(tokens, a, p) ==
    tokens \cup { Merge(DefaultRow, p) }

\* supabase.table('tokens').insert(p): a conflict on the natural key raises
\* APIError 23505, which the store routines turn into an update.
InsertOrUpdate(tokens, a, p) ==
    IF \E r \in tokens : r.address = a
    THEN UpdateTokens(tokens, a, p)
    ELSE tokens \cup { Merge(DefaultRow, p) }

\* The id columns a payload carries: a key is set only when the id is known.
IdColumns(ids) ==
    [c \in { k \in {"source_code_id", "gpl_audit_id", "token_information_id"} :
               ids[k] # 0 } |-> ids[c]]

NoIds == [source_code_id |-> 0, gpl_audit_id |-> 0, token_information_id |-> 0]

(***************************************************************************)
(* The shared state a handler acts on, as one record S:                    *)
(*   tokens, n_source, n_audit, n_info      the relational store           *)
(*   retry_queue, failed_events, notification_queue    the key-value store *)
(* and the context h of one processing attempt:                            *)
(*   pc    the handler's position (next store call), "done" at return      *)
(*   job   event_data;  resp  the collaborators' replies for this attempt  *)
(*   ex    existing_token.data read at the start of new_pair / lock_lp     *)
(*   ren   what is_token_renounced returned                                *)
(*   ids   the child ids of supabase_token_data                            *)
(*   stored  whether the store routine returned a row                      *)
(*   res   the handler's return value: "ok" (True), "fail" (False)         *)
(***************************************************************************)
IdleCtx ==
    [pc |-> "idle", job |-> NoJob,
     resp |-> CHOOSE r \in Responses : r.err = "pre",
     ex |-> << >>, ren |-> FALSE, ids |-> NoIds, stored |-> FALSE,
     res |-> "none"]

StartCtx(job, resp) == [IdleCtx EXCEPT !.pc = "start", !.job = job, !.resp = resp]

\* redis.zadd('retry_queue', {member: score}): one entry per member.
zadd(rq, member, score) ==
    { x \in rq : x.member # member } \cup { [member |-> member, score |-> score] }

\* TokenProcessor.handle_failed_event
handle_failed_event_bad_limit(S, job, now) ==
    LET retry_count == job.retry_count + 1
        event_data == [job EXCEPT !.retry_count = retry_count, !.last_retry = now]
    IN  IF retry_count < MAX_RETRIES
        THEN [S EXCEPT !.retry_queue =
                 zadd(@, event_data, now + RETRY_DELAY * (2 ^ (retry_count - 1)))]
        ELSE [S EXCEPT !.failed_events = Append(@, event_data)]

handle_failed_event(S, job, now) ==
    LET retry_count == job.retry_count + 1
        event_data == [job EXCEPT !.retry_count = retry_count, !.last_retry = now]
    IN  IF retry_count <= MAX_RETRIES
        THEN [S EXCEPT !.retry_queue =
                 zadd(@, event_data, now + RETRY_DELAY * (2 ^ (retry_count - 1)))]
        ELSE [S EXCEPT !.failed_events = Append(@, event_data)]

\* sum_locked_lp_percent: the larger of the holder-snapshot percentage and
\* the lock transaction's percentage.
sum_locked_lp_percent(holders, tx) == IF holders >= tx THEN holders ELSE tx

(***************************************************************************)
(* token_data as the handlers build it before the store routine runs.      *)
(***************************************************************************)
\* new_pair / lock_lp on a token that exists: the "update" branch.
OnExisting(h) == h.job.event_type \in {"new_pair", "lock_lp"} /\ h.ex # << >>

\* The source lookup runs on the new-token branches, and on the update
\* branch only when the stored row has no source_code_id.
SourceFetched(h) == ~OnExisting(h) \/ h.ex[1].source_code_id = 0

TdVerified(h) ==
    IF SourceFetched(h)
    THEN (IF h.resp.source = "unverified" THEN "F" ELSE "T")
    ELSE h.ex[1].contract_verified

\* check_socials_exist(token_data)
TdSocials(h) == SourceFetched(h) /\ h.resp.source = "social"

\* token_data.get('raw_results')
TdRaw(h) == h.resp.audit # "fail"

TdIsScam(h) ==
    CASE h.resp.audit = "fail" -> Null
      [] h.resp.audit = "scam" -> "T"
      [] OTHER -> "F"

TdRisk(h) ==
    CASE h.resp.audit = "fail" -> Null
      [] h.resp.audit = "scam" -> "High"
      [] OTHER -> "Low"

\* is_renounced: set from the audit's owner_address when the audit
\* succeeded, then forced to True when is_token_renounced said so.
TdRenounced(h) ==
    IF h.ren THEN "T"
    ELSE IF h.resp.audit = "fail" THEN Null
    ELSE IF h.resp.owner_null THEN "T" ELSE "F"

\* locked_lp: only lock_lp passes the lock transaction.
TdLocked(h) ==
    IF h.resp.audit = "fail" THEN NullNum
    ELSE sum_locked_lp_percent(h.resp.holders,
            IF h.job.event_type = "lock_lp" THEN h.job.amount ELSE 0)

\* supabase_token_data of store_new_token_in_supabase
NewTokenPayload(h) ==
    [address |-> TokenAddress, name |-> "name",
     contract_verified |-> TdVerified(h),
     risk_level |-> TdRisk(h), is_scam |-> TdIsScam(h)]

\* supabase_token_data of store_new_pair_data_in_supabase: is_scam is a key
\* only when token_data's is_scam is true.
NewPairPayload(h) ==
    LET base == [address |-> TokenAddress, name |-> "name",
                 contract_verified |-> TdVerified(h),
                 risk_level |-> TdRisk(h), dex_pair |-> PairAddress,
                 is_renounced |-> TdRenounced(h),
                 liquidity_locked |-> TdLocked(h)]
    IN  IF TdIsScam(h) = "T" THEN [is_scam |-> "T"] @@ base ELSE base

\* supabase_token_data of update_pair_data_in_supabase
UpdatePairPayload(h) ==
    [contract_verified |-> TdVerified(h),
     risk_level |-> TdRisk(h), is_scam |-> TdIsScam(h),
     dex_pair |-> PairAddress, is_renounced |-> TdRenounced(h),
     liquidity_locked |-> TdLocked(h)]

(***************************************************************************)
(* One step of a handler: from the position h.pc to the next store call.   *)
(* A step makes at most one call on the tokens table, so that the steps of *)
(* two workers interleave exactly where the calls of two processes can.    *)
(* HStep returns the new shared state and the new context.                 *)
(***************************************************************************)
Ret(S, h) == [S |-> S, h |-> h]

\* return True
ReturnOk(S, h) == Ret(S, [h EXCEPT !.pc = "done", !.res = "ok"])

\* self.handle_failed_event(event_data, ...); return False
ReturnFailed(S, h, now) ==
    Ret(handle_failed_event(S, h.job, now), [h EXCEPT !.pc = "done", !.res = "fail"])

\* return False, with no call of handle_failed_event
ReturnFalse(S, h) == Ret(S, [h EXCEPT !.pc = "done", !.res = "fail"])

Goto(S, h, pc) == Ret(S, [h EXCEPT !.pc = pc])

\* The child ids a store routine starts from, read from the tokens table
\* (store_new_token_in_supabase, store_new_pair_data_in_supabase).
ExistingIds(tokens) ==
    LET data == SelectByAddress(tokens, TokenAddress)
    IN  IF data = << >> THEN NoIds
        ELSE [c \in DOMAIN NoIds |-> data[1][c]]

\* The ids update_pair_data_in_supabase is passed: those of existing_data.
PassedIds(h) == [c \in DOMAIN NoIds |-> h.ex[1][c]]

(***************************************************************************)
(* The child-table writes of the three store routines.  A source_code row  *)
(* is created when the contract is verified and no id is known; a          *)
(* token_information row when socials exist and no id is known (a known    *)
(* row is updated in place by the two insert routines and left alone by    *)
(* the update routine); a gpl_audit row is updated in place when           *)
(* auditKnown, otherwise created.                                          *)
(***************************************************************************)
WriteChildren(S, h, auditKnown) ==
    LET newSrc == TdVerified(h) = "T" /\ h.ids.source_code_id = 0
        newInfo == TdSocials(h) /\ h.ids.token_information_id = 0
        newAudit == TdRaw(h) /\ ~auditKnown
        ids == [source_code_id |->
                    IF newSrc THEN S.n_source + 1 ELSE h.ids.source_code_id,
                token_information_id |->
                    IF newInfo THEN S.n_info + 1 ELSE h.ids.token_information_id,
                gpl_audit_id |->
                    IF newAudit THEN S.n_audit + 1 ELSE h.ids.gpl_audit_id]
    IN  Ret([S EXCEPT !.n_source = IF newSrc THEN @ + 1 ELSE @,
                      !.n_info = IF newInfo THEN @ + 1 ELSE @,
                      !.n_audit = IF newAudit THEN @ + 1 ELSE @],
            [h EXCEPT !.ids = ids])

\* store_new_token_in_supabase / store_new_pair_data_in_supabase:
\* "if supabase_token_data.get('gpl_audit_id')" decides update or create.
AuditKnownOnInsert(h) == h.ids.gpl_audit_id # 0

\* update_pair_data_in_supabase: "if supabase_token_data.get('gpl_audit_results')",
\* a key that supabase_token_data never has.
AuditKnownOnUpdate(h) == FALSE

\* The notification step without the is_scam test.
Notify_scam_too(S, h) ==
    [S EXCEPT !.notification_queue =
        Append(@, [event_type |-> h.job.event_type,
                   event_id |-> h.job.event_id])]

\* self.redis.rpush('notification_queue', ...) unless token_data's is_scam
Notify(S, h) ==
    IF TdIsScam(h) = "T" THEN S
    ELSE [S EXCEPT !.notification_queue =
             Append(@, [event_type |-> h.job.event_type,
                        event_id |-> h.job.event_id])]

\* process_webhook's dispatch and the part of the handler before its first
\* call on the tokens table.
StepStart(S, h, now) ==
    CASE h.job.event_type = "lock_lp" /\ h.job.lp_token = Null -> ReturnFalse(S, h)
      [] h.job.event_type = "lock_lp" /\ h.job.lp_token # Null ->
            IF h.resp.err = "pre" THEN ReturnFailed(S, h, now)
            ELSE Goto(S, h, "ll_lookup")
      [] h.job.event_type = "new_token" ->
            IF h.resp.err = "pre" THEN ReturnFailed(S, h, now)
            ELSE IF ~h.resp.basic THEN ReturnOk(S, h)
            ELSE Goto(S, h, "nt_select")
      [] h.job.event_type = "new_pair" ->
            IF h.resp.err = "pre" THEN ReturnFailed(S, h, now)
            ELSE Goto(S, h, "np_lookup")
      [] h.job.event_type = "ownership_renounced" ->
            IF h.resp.err = "pre" THEN ReturnFailed(S, h, now)
            ELSE Goto(S, h, "or_update")
      [] OTHER -> ReturnFalse(S, h)

\* The existing_token lookup without the is_scam test.
StepLookup_no_scam_skip(S, h) ==
    LET data == IF h.job.event_type = "lock_lp"
                THEN SelectByPair(S.tokens, h.job.lp_token)
                ELSE SelectByAddress(S.tokens, TokenAddress)
        h1 == [h EXCEPT !.ex = data]
    IN  IF data # << >>
        THEN Goto(S, [h1 EXCEPT !.ids = PassedIds(h1)], "up_renounced")
        ELSE IF h.job.event_type = "lock_lp" \/ ~h.resp.basic THEN ReturnOk(S, h1)
             ELSE Goto(S, h1, "sp_renounced")

\* The existing_token lookup returning False for a lock of an unknown pair.
StepLookup_unknown_pair_fails(S, h) ==
    LET data == IF h.job.event_type = "lock_lp"
                THEN SelectByPair(S.tokens, h.job.lp_token)
                ELSE SelectByAddress(S.tokens, TokenAddress)
        h1 == [h EXCEPT !.ex = data]
    IN  IF data # << >>
        THEN IF data[1].is_scam = "T" THEN ReturnOk(S, h1)
             ELSE Goto(S, [h1 EXCEPT !.ids = PassedIds(h1)], "up_renounced")
        ELSE IF h.job.event_type = "lock_lp" THEN ReturnFalse(S, h1)
             ELSE IF ~h.resp.basic THEN ReturnOk(S, h1)
             ELSE Goto(S, h1, "sp_renounced")

\* process_new_pair / process_lock_lp: the existing_token lookup.
StepLookup(S, h) ==
    LET data == IF h.job.event_type = "lock_lp"
                THEN SelectByPair(S.tokens, h.job.lp_token)
                ELSE SelectByAddress(S.tokens, TokenAddress)
        h1 == [h EXCEPT !.ex = data]
    IN  IF data # << >>
        THEN IF data[1].is_scam = "T" THEN ReturnOk(S, h1)
             ELSE Goto(S, [h1 EXCEPT !.ids = PassedIds(h1)], "up_renounced")
        ELSE IF h.job.event_type = "lock_lp" \/ ~h.resp.basic THEN ReturnOk(S, h1)
             ELSE Goto(S, h1, "sp_renounced")

\* is_token_renounced(address, chain_id)
is_token_renounced(tokens) ==
    LET data == SelectByAddress(tokens, TokenAddress)
    IN  data # << >> /\ data[1].is_renounced = "T"

HStep(S, h, now) ==
    CASE h.pc = "start" -> StepStart(S, h, now)
      \* ---- store_new_token_in_supabase
      [] h.pc = "nt_select" ->
            Goto(S, [h EXCEPT !.ids = ExistingIds(S.tokens)], "nt_children")
      [] h.pc = "nt_children" ->
            LET r == WriteChildren(S, h, AuditKnownOnInsert(h))
            IN  Goto(r.S, r.h, "nt_insert")
      [] h.pc = "nt_insert" ->
            \* a failing store makes the routine return None, which
            \* process_new_token does not take for an error
            IF h.resp.err = "store" THEN Goto(S, h, "notify")
            ELSE Goto([S EXCEPT !.tokens = InsertOrUpdate(@, TokenAddress,
                                    IdColumns(h.ids) @@ NewTokenPayload(h))],
                      [h EXCEPT !.stored = TRUE], "notify")
      \* ---- process_new_pair, process_lock_lp
      [] h.pc \in {"np_lookup", "ll_lookup"} -> StepLookup(S, h)
      \* ---- update_pair_data_in_supabase
      [] h.pc = "up_renounced" ->
            Goto(S, [h EXCEPT !.ren = is_token_renounced(S.tokens)], "up_children")
      [] h.pc = "up_children" ->
            LET r == WriteChildren(S, h, AuditKnownOnUpdate(h))
            IN  Goto(r.S, r.h, "up_update")
      [] h.pc = "up_update" ->
            IF h.resp.err = "store" THEN ReturnFailed(S, h, now)
            ELSE Goto([S EXCEPT !.tokens = UpdateTokens(@, h.ex[1].address,
                                    IdColumns(h.ids) @@ UpdatePairPayload(h))],
                      [h EXCEPT !.stored = TRUE], "notify")
      \* ---- store_new_pair_data_in_supabase
      [] h.pc = "sp_renounced" ->
            Goto(S, [h EXCEPT !.ren = is_token_renounced(S.tokens)], "sp_select")
      [] h.pc = "sp_select" ->
            Goto(S, [h EXCEPT !.ids = ExistingIds(S.tokens)], "sp_children")
      [] h.pc = "sp_children" ->
            LET r == WriteChildren(S, h, AuditKnownOnInsert(h))
            IN  Goto(r.S, r.h, "sp_insert")
      [] h.pc = "sp_insert" ->
            IF h.resp.err = "store" THEN ReturnFailed(S, h, now)
            ELSE Goto([S EXCEPT !.tokens = InsertOrUpdate(@, TokenAddress,
                                    IdColumns(h.ids) @@ NewPairPayload(h))],
                      [h EXCEPT !.stored = TRUE], "notify")
      \* ---- update_renounced_status_in_supabase
      [] h.pc = "or_update" ->
            IF h.resp.err = "store" THEN ReturnFailed(S, h, now)
            ELSE ReturnOk([S EXCEPT !.tokens = UpdateTokens(@, TokenAddress,
                                    [is_renounced |-> "T"])], h)
      \* ---- the notification step that ends the three enriching handlers
      [] h.pc = "notify" -> ReturnOk(Notify(S, h), h)
      [] OTHER -> Ret(S, h)

\* A handler run from h to its return, with no other process in between
\* (the step's result is bound once, as the element of a singleton).
RECURSIVE RunHandler(_, _, _)
RunHandler(S, h, now) ==
    IF h.pc \in {"done", "idle"} THEN Ret(S, h)
    ELSE CHOOSE out \in { RunHandler(r.S, r.h, now) : r \in { HStep(S, h, now) } } :
            TRUE

(***************************************************************************)
(* The ingestion gateway (ingestion_service.py).                           *)
(*                                                                         *)
(* A request carries its credentials, its body and the state of the Redis  *)
(* connection while it is handled.  Credentials: dev_mode is the DEV_MODE  *)
(* switch of the deployment, header the x-signature header (Null when      *)
(* missing, "digest" the lower-case hex of keccak(body + secret), "DIGEST"  *)
(* the same digits in upper case, "0x..." either with the prefix, "other"  *)
(* the digest of another body or secret), secret whether                   *)
(* MORALIS_SECRET_KEY is set, readable whether body + secret decodes as    *)
(* text (when not, the digest computation raises).                         *)
(*                                                                         *)
(* The lock transaction's input is a function selector and 32-byte words;  *)
(* a word is a number, or Unparsable when int(word, 16) or the checksum    *)
(* conversion rejects it.  A word beyond the end of the input is the empty *)
(* string, which int(.., 16) rejects as well.                              *)
(***************************************************************************)
MaxRequests == 2

Unparsable == -2

Credentials ==
    { [dev_mode |-> FALSE, header |-> "digest", secret |-> TRUE, readable |-> TRUE],
      [dev_mode |-> TRUE, header |-> Null, secret |-> FALSE, readable |-> TRUE],
      [dev_mode |-> FALSE, header |-> Null, secret |-> TRUE, readable |-> TRUE],
      [dev_mode |-> FALSE, header |-> "other", secret |-> TRUE, readable |-> TRUE],
      [dev_mode |-> FALSE, header |-> "digest", secret |-> FALSE, readable |-> TRUE],
      [dev_mode |-> FALSE, header |-> "digest", secret |-> TRUE, readable |-> FALSE],
      [dev_mode |-> FALSE, header |-> "0xdigest", secret |-> TRUE, readable |-> TRUE],
      [dev_mode |-> FALSE, header |-> "DIGEST", secret |-> TRUE, readable |-> TRUE],
      [dev_mode |-> FALSE, header |-> "0xDIGEST", secret |-> TRUE, readable |-> TRUE] }

ValidCredentials ==
    [dev_mode |-> FALSE, header |-> "digest", secret |-> TRUE, readable |-> TRUE]

\* provided_signature[2:] when the header starts with '0x'.
strip_0x(h) ==
    CASE h = "0xdigest" -> "digest"
      [] h = "0xDIGEST" -> "DIGEST"
      [] OTHER -> h

\* Web3.keccak(text = body + secret).hex() without its '0x': lower-case hex.
keccak_hex == "digest"

\* verify_moralis_signature accepting a request that has no x-signature header.
verify_moralis_signature_no_header_check(c) ==
    IF c.dev_mode THEN TRUE
    ELSE IF ~c.secret THEN FALSE
    ELSE IF ~c.readable THEN FALSE
    ELSE c.header = Null \/ strip_0x(c.header) = keccak_hex

verify_moralis_signature(c) ==
    IF c.dev_mode THEN TRUE
    ELSE IF c.header = Null THEN FALSE
    ELSE IF ~c.secret THEN FALSE
    ELSE IF ~c.readable THEN FALSE
    ELSE strip_0x(c.header) = keccak_hex

NoTx == [present |-> FALSE, lock |-> FALSE, words |-> << >>]

TxInputs ==
    { NoTx,
      [present |-> TRUE, lock |-> FALSE, words |-> << 1, 1, 1 >>],
      [present |-> TRUE, lock |-> TRUE, words |-> << 1, Unparsable, 1 >>],
      [present |-> TRUE, lock |-> TRUE, words |-> << 1, 0, 1 >>],
      [present |-> TRUE, lock |-> TRUE, words |-> << 1, 1 >>],
      [present |-> TRUE, lock |-> TRUE, words |-> << Unparsable, 1, 1 >>],
      [present |-> TRUE, lock |-> TRUE, words |-> << 1, 1, 1 >>] }

LogAddresses ==
    { << >>, << "A" >>, << "A", "A" >>, << "A", "B" >>, << Null >>, << Null, "A" >> }

Payloads ==
    [confirmed : BOOLEAN, abi : {Null, "LockLPToken"}, tx : TxInputs,
     topic0 : {"OwnershipTransferred", "PairCreated", "Transfer", Null},
     new_owner : {"owner", "burn"}, logs : LogAddresses]

DefaultPayload ==
    [confirmed |-> TRUE, abi |-> Null, tx |-> NoTx, topic0 |-> "PairCreated",
     new_owner |-> "owner", logs |-> << "A" >>]

\* One payload for each way the handler can treat it: the fields that the
\* handler does not read on a path keep their default.
CanonicalPayload(p) ==
    /\ p.abi = Null => p.tx = NoTx
    /\ p.topic0 # "OwnershipTransferred" => p.new_owner = "owner"
    /\ p.logs = << >> => p.topic0 = "PairCreated"
    /\ p.abi # Null =>
          p.logs = << "A" >> \/ (p.tx.present /\ ~p.tx.lock /\ p.logs = << >>)

Requests ==
    { r \in [cred : Credentials, body : {"none", "empty", "payload"},
             payload : Payloads, redis : {"ok", "down"}] :
        /\ CanonicalPayload(r.payload)
        /\ r.body # "payload" => r.payload = DefaultPayload /\ r.redis = "ok"
        /\ r.cred # ValidCredentials =>
              r.payload = DefaultPayload /\ r.redis = "ok"
        /\ r.redis = "down" => r.payload.logs = << "A" >> }

word(words, i) == IF i <= Len(words) THEN words[i] ELSE Unparsable

get_event_type(p) ==
    LET fallback ==
            IF p.logs = << >> THEN "unknown"
            ELSE IF p.topic0 = "OwnershipTransferred"
                 THEN IF p.new_owner = "burn" THEN "ownership_renounced"
                      ELSE "new_token"
            ELSE IF p.topic0 = "PairCreated" THEN "new_pair"
            ELSE "unknown"
    IN  IF p.abi = "LockLPToken"
        THEN IF ~p.tx.present THEN "raise"
             ELSE IF p.tx.lock /\ word(p.tx.words, 2) > 0 THEN "lock_lp"
             ELSE fallback
        ELSE fallback

\* is_confirmed taking every block as confirmed.
is_confirmed_always(p) == TRUE

\* data.get('confirmed', False): an absent flag reads as false.
is_confirmed(p) == p.confirmed

extract_addresses_from_logs(logs) ==
    { logs[i] : i \in DOMAIN logs } \ {Null}

decode_lock_lp_input(tx) ==
    IF \E i \in 1..3 : word(tx.words, i) = Unparsable THEN Null
    ELSE "decoded"

transform_lock_lp_data(p) ==
    IF ~p.tx.present THEN Null ELSE decode_lock_lp_input(p.tx)

\* event_data as pushed: the event id is the payload id, followed for a
\* per-address job by "_" and the address.
GatewayJob(id, kind, address) ==
    [event_id |-> << id, address >>, event_type |-> kind, address |-> address,
     retry_count |-> 0]

\* The orders in which list(set(addresses)) can list the addresses.
Listings(S) ==
    { s \in [1..Cardinality(S) -> S] : \A i, j \in DOMAIN s : s[i] = s[j] => i = j }

Reply(status, message, queue) ==
    [raised |-> FALSE, status |-> status, message |-> message, queue |-> queue]

Raise(exception, queue) ==
    [raised |-> TRUE, status |-> 0, message |-> exception, queue |-> queue]

\* The body of process_webhook's try block: the outcomes it can have.
process_webhook_try(req, id, queue) ==
    LET p == req.payload
        kind == get_event_type(p)
        addresses == extract_addresses_from_logs(p.logs)
    IN  IF ~verify_moralis_signature(req.cred)
        THEN { Reply(200, "Nice try", queue) }
        ELSE IF req.body = "none"
        THEN { Raise("JSONDecodeError", queue) }
        ELSE IF req.body = "empty"
        THEN { Raise("HTTPException 400: No data received", queue) }
        ELSE IF ~is_confirmed(p)
        THEN { Reply(200, "Block not confirmed", queue) }
        ELSE IF kind = "raise"
        THEN { Raise("KeyError: txs", queue) }
        ELSE IF kind = "unknown"
        THEN { Reply(200, "Unknown event type", queue) }
        ELSE IF kind \in {"new_token", "ownership_renounced"}
        THEN IF addresses = {}
             THEN { Reply(200, "No addresses found", queue) }
             ELSE IF req.redis = "down"
             THEN { Raise("ConnectionError", queue) }
             ELSE { Reply(202, "accepted",
                          queue \o [i \in DOMAIN order |->
                                      GatewayJob(id, kind, order[i])]) :
                    order \in Listings(addresses) }
        ELSE IF kind = "lock_lp" /\ transform_lock_lp_data(p) = Null
        THEN { Reply(200, "Failed to transform LP lock data", queue) }
        ELSE IF req.redis = "down"
        THEN { Raise("ConnectionError", queue) }
        ELSE { Reply(202, "accepted",
                     Append(queue, GatewayJob(id, kind, Null))) }

\* process_webhook: except Exception -> HTTPException(status_code=500).
process_webhook(req, id, queue) ==
    { IF out.raised THEN Reply(500, out.message, out.queue) ELSE out :
      out \in process_webhook_try(req, id, queue) }

NoRequest ==
    [n |-> 0, req |-> [cred |-> ValidCredentials, body |-> "none",
                       payload |-> DefaultPayload, redis |-> "ok"],
     before |-> << >>, status |-> 0, message |-> Null]

(***************************************************************************)
(* The notification worker's filter (notification_worker.py).              *)
(*                                                                         *)
(* A filter record as json.loads gives it, a missing key standing for the  *)
(* default of filters.get: text fields are lower-case strings ("" when     *)
(* missing or blank; the cache writer replaces null by ""), has_social and *)
(* contract_verified are "T", "F" or Null, blockchains is the set of the   *)
(* lower-cased names, and a numeric field (buy_tax, sell_tax, locked_lp)   *)
(* is NullNum when missing, Blank for "", Unparsable for a text that       *)
(* float() rejects, and a number otherwise.                                *)
(*                                                                         *)
(* A message snapshot is token_data as the processing worker queued it:    *)
(* classification is Null when the key is present with the value None (a   *)
(* row read back with no classification), risk_level is "" when the key is *)
(* missing (the audit gave nothing), locked_lp is a number (0 when    *)
(* the key is missing), a tax is Blank, a number or Unparsable.            *)
(***************************************************************************)
MaxFilterFields == 3

MaxSnapshotFields == 3

Blank == -3

EmptyFilter ==
    [buy_tax |-> NullNum, sell_tax |-> NullNum, risk_level |-> "",
     contract_verified |-> Null, classification |-> "", alert_type |-> "",
     has_social |-> Null, blockchains |-> {}, locked_lp |-> NullNum]

FilterValues ==
    [buy_tax : {NullNum, Blank, Unparsable, 5},
     sell_tax : {NullNum, Unparsable, 5},
     risk_level : {"", "low"},
     contract_verified : {Null, "T"},
     classification : {"", "all", "exclude memecoins", "memecoins"},
     alert_type : {"", "all", "new tge", "new dex listing"},
     has_social : {Null, "T"},
     blockchains : {{}, {"ethereum"}},
     locked_lp : {NullNum, Blank, Unparsable, 10}]

DefaultSnapshot ==
    [event_type |-> "new_pair", classification |-> "utility",
     risk_level |-> "low", buy_tax |-> 3, sell_tax |-> 3,
     contract_verified |-> TRUE, socials |-> TRUE, chain_id |-> "0x1",
     locked_lp |-> 50]

SnapshotValues ==
    [event_type : {"new_token", "new_pair", "lock_lp"},
     classification : {Null, "", "memecoins", "utility"},
     risk_level : {"", "low", "high"},
     buy_tax : {Blank, 3, 10},
     sell_tax : {3, 10},
     contract_verified : BOOLEAN,
     socials : BOOLEAN,
     chain_id : {"0x1", "0xaa36a7"},
     locked_lp : {0, 5, 50}]

\* The number of fields in which record r differs from record d.
Differences(r, d) == Cardinality({ k \in DOMAIN r : r[k] # d[k] })

Filters == { f \in FilterValues : Differences(f, EmptyFilter) <= MaxFilterFields }

Snapshots ==
    { m \in SnapshotValues : Differences(m, DefaultSnapshot) <= MaxSnapshotFields }

\* chain_id_mapping.get(chain_id), lower-cased
chain_id_mapping(chain_id) ==
    CASE chain_id = "0x1" -> "ethereum"
      [] chain_id = "0xaa36a7" -> "sepolia testnet"
      [] OTHER -> Null

\* risk_level_mapping.get(level.capitalize(), -1)
risk_level_mapping(level) ==
    CASE level = "safe" -> 0
      [] level = "low" -> 1
      [] level = "medium" -> 2
      [] level = "high" -> 3
      [] OTHER -> -1

\* Python truth of a numeric field: None, "" and 0 are false.
Truthy(v) == v \notin {NullNum, Blank, 0}

\* float(v) succeeds
Parses(v) == v >= 0

blockchain_check(f, m) ==
    ~ ( /\ f.blockchains # {}
        /\ chain_id_mapping(m.chain_id) # Null
        /\ chain_id_mapping(m.chain_id) \notin f.blockchains )

socials_check(f, m) == ~(f.has_social = "T" /\ ~m.socials)

event_type_check(f, m) ==
    IF f.alert_type # "all"
    THEN IF f.alert_type = "new tge" /\ m.event_type # "new_token" THEN FALSE
         ELSE IF f.alert_type = "new dex listing" /\ m.event_type # "new_pair"
              THEN FALSE
         ELSE TRUE
    ELSE TRUE

\* The locked-LP floor applied to every event type.
locked_lp_check_every_event(f, m) ==
    IF Truthy(f.locked_lp) /\ f.alert_type # "new tge"
    THEN IF ~Parses(f.locked_lp) THEN FALSE
         ELSE ~(m.locked_lp < f.locked_lp)
    ELSE TRUE

locked_lp_check(f, m) ==
    IF m.event_type # "new_token"
    THEN IF Truthy(f.locked_lp) /\ f.alert_type # "new tge"
         THEN IF ~Parses(f.locked_lp) THEN FALSE
              ELSE ~(m.locked_lp < f.locked_lp)
         ELSE TRUE
    ELSE TRUE

classification_check(f, m) ==
    IF f.classification # "all"
    THEN IF f.classification = "exclude memecoins"
         THEN m.classification # "memecoins"
         ELSE f.classification = m.classification
    ELSE TRUE

contract_verified_check(f, m) ==
    ~(f.contract_verified = "T" /\ ~m.contract_verified)

risk_level_check(f, m) ==
    IF f.risk_level # ""
    THEN ~(risk_level_mapping(m.risk_level) > risk_level_mapping(f.risk_level))
    ELSE TRUE

\* The buy-tax and the sell-tax check.
tax_check(filter_tax, message_tax) ==
    IF Truthy(filter_tax)
    THEN IF ~Parses(filter_tax) THEN FALSE
         ELSE IF Truthy(message_tax)
         THEN IF ~Parses(message_tax) THEN FALSE
              ELSE ~(message_tax > filter_tax)
         ELSE TRUE
    ELSE TRUE

\* apply_filters(filters, message_data): "true", "false", or "raise" when
\* .lower() is called on None while the message data is extracted.
apply_filters(f, m) ==
    IF m.risk_level = Null \/ m.classification = Null \/ m.event_type = Null
    THEN "raise"
    ELSE IF /\ blockchain_check(f, m)
            /\ socials_check(f, m)
            /\ event_type_check(f, m)
            /\ locked_lp_check(f, m)
            /\ classification_check(f, m)
            /\ contract_verified_check(f, m)
            /\ risk_level_check(f, m)
            /\ tax_check(f.buy_tax, m.buy_tax)
            /\ tax_check(f.sell_tax, m.sell_tax)
         THEN "true"
         ELSE "false"

NoFiltering ==
    [filter |-> EmptyFilter, snapshot |-> DefaultSnapshot, result |-> "none"]

(***************************************************************************)
(* The notification worker's send budget (notification_worker.py): the     *)
(* consumer threads started by __main__, the module globals messages_sent  *)
(* and rate_limit_start_time, and rate_limit_lock.  The clock counts ticks *)
(* of 1 / TicksPerSecond second; a step takes no time, time passes between *)
(* steps.  sent_at counts the sends issued at each of the last              *)
(* TicksPerSecond ticks, the current one last: the sends of the second     *)
(* that ends now.                                                          *)
(***************************************************************************)
TicksPerSecond == 1

MaxClock == 1

MaxSends == 31

RATE_LIMIT == 30

\* Two of the consumer threads that __main__ starts; a further thread that
\* finds message_queue empty blocks in message_queue.get() and takes no step.
Consumers == {"c1", "c2"}

InitLimiter ==
    [messages_sent |-> 0, rate_limit_start_time |-> 0, lock |-> Null,
     clock |-> 0, pc |-> [c \in Consumers |-> "idle"],
     loaded |-> [c \in Consumers |-> 0],
     sent_at |-> [i \in 1..TicksPerSecond |-> 0], sent |-> 0]

(***************************************************************************)
(* sum_locked_lp_percent as the code computes it (processing_worker.py).   *)
(* The handlers above use its outcome, the larger of two percentages; here *)
(* are its inputs.  raw_results is the audit reply (absent when None):     *)
(* lp_holders with is_locked and percent, and lp_total_supply.  A holder's *)
(* percent is a fraction, held here in hundredths, so that 100 times the   *)
(* sum of the fractions is the sum of the hundredths; it is Unparsable     *)
(* when float() rejects it.  transformed_data carries the lock's amount.   *)
(* NullNum is a missing key or None.                                       *)
(***************************************************************************)
MaxHolders == 2

HolderValues == [is_locked : {0, 1}, percent : {Unparsable, 0, 30, 60}]

HolderLists ==
    UNION { [1..n -> HolderValues] : n \in 0..MaxHolders }

NoRawResults ==
    [present |-> FALSE, lp_holders |-> << >>, lp_total_supply |-> NullNum]

RawResults ==
    { NoRawResults } \cup
    [present : {TRUE}, lp_holders : HolderLists,
     lp_total_supply : {NullNum, Unparsable, 0, 200}]

NoTransformedData == [present |-> FALSE, amount |-> NullNum]

TransformedData ==
    { NoTransformedData } \cup
    [present : {TRUE}, amount : {NullNum, Unparsable, 0, 50, 100}]

\* `if lock_amount and total_supply`: None and 0 are false.
Given(x) == x # NullNum /\ x # 0

\* The loop over lp_holders: Unparsable when float(percent) raises.
RECURSIVE method_1_percent(_)
method_1_percent(lp_holders) ==
    IF lp_holders = << >> THEN 0
    ELSE LET holder == Head(lp_holders)
             rest == method_1_percent(Tail(lp_holders))
         IN  IF holder.is_locked # 1 THEN rest
             ELSE IF holder.percent = Unparsable \/ rest = Unparsable
                  THEN Unparsable
             ELSE holder.percent + rest

\* (lock_amount / total_supply) * 100, or 0.0 as initialised.
method_2_percent(raw_results, transformed_data) ==
    LET lock_amount == transformed_data.amount
        total_supply == raw_results.lp_total_supply
    IN  IF ~(transformed_data.present /\ raw_results.present) THEN 0
        ELSE IF ~(Given(lock_amount) /\ Given(total_supply)) THEN 0
        ELSE IF lock_amount = Unparsable \/ total_supply = Unparsable THEN 0
        ELSE IF total_supply > 0 THEN (lock_amount * 100) \div total_supply
        ELSE 0

\* sum_locked_lp_percent(raw_results, transformed_data) on these inputs; an
\* exception in the loop over the holders ends in the outer handler.
locked_lp_percent(raw_results, transformed_data) ==
    LET m1 == IF raw_results.present
              THEN method_1_percent(raw_results.lp_holders) ELSE 0
        m2 == method_2_percent(raw_results, transformed_data)
    IN  IF m1 = Unparsable THEN 0
        ELSE sum_locked_lp_percent(m1, m2)

NoLockCalc ==
    [raw_results |-> NoRawResults, transformed_data |-> NoTransformedData,
     result |-> 0, called |-> FALSE]

(***************************************************************************)
(* fetch_with_retry and its three call sites in process_new_token          *)
(* (processing_worker.py): the token introspection ("basic"), the source   *)
(* lookup ("source") and the audit ("audit").  A call of the collaborator  *)
(* answers with a result ("ok"), with nothing ("none", for the             *)
(* introspection: not an ERC-20 token), with a rate-limit error ("429") or *)
(* with another error ("error").                                           *)
(***************************************************************************)
fetch_max_retries == 3

fetch_base_delay == 1

Sites == {"basic", "source", "audit"}

FetchReplies == {"ok", "none", "429", "error"}

\* What the job stores for a lookup that returned.
SourceResults == {"unverified", "verified"}

AuditResults == {"ok", "scam"}

IdleFetch ==
    [pc |-> "idle", site |-> "basic", attempt |-> 0,
     calls |-> [x \in Sites |-> 0], slept |-> [x \in Sites |-> 0],
     raised |-> [x \in Sites |-> "none"],
     source |-> "unverified", audit |-> "fail", res |-> "none"]

FetchJob == NewJob(1, "new_token", Null)

\* The replies the rest of process_new_token works with, after the lookups.
FetchedResponse(f) ==
    [err |-> "none", basic |-> TRUE, source |-> f.source, audit |-> f.audit,
     owner_null |-> FALSE, holders |-> 0]

\* fetch_with_retry: `"429" in str(e) and attempt < max_retries - 1`.
RetriesLeft(f, reply) == reply = "429" /\ f.attempt < fetch_max_retries - 1

(***************************************************************************)
(* send_telegram_message and the loop of message_consumer around it        *)
(* (notification_worker.py).  A request to the provider is answered with a *)
(* status ("200", "429" with or without a retry_after, "500" for any other *)
(* status), or raises requests.RequestException ("RequestException") or    *)
(* anything else ("Exception", as response.json() on a body that is not    *)
(* JSON).  The subscribers are those whose filter passed.                  *)
(***************************************************************************)
send_max_retries == 3

send_base_delay == 1

MaxMessages == 2

MaxSubscribers == 2

SendReplies == {"200", "429", "500", "RequestException", "Exception"}

\* The retry_after of a 429 response's parameters: NullNum when it has none.
RetryAfters == {NullNum, 2}

\* get('retry_after', base_delay) on every response.
retry_after_ignored(parameter) == send_base_delay

\* response.json().get('parameters', {}).get('retry_after', base_delay)
retry_after(parameter) ==
    IF parameter = NullNum THEN send_base_delay ELSE parameter

InitSending ==
    [pc |-> "get", queued |-> MaxMessages, subscriber |-> 0, attempt |-> 0,
     posts |-> 0, wait |-> 0, status |-> "none", parameter |-> NullNum,
     result |-> "none", outcomes |-> << >>]

(***************************************************************************)
(* The fan-out of one message in message_consumer (notification_worker.py):*)
(* the loop over the keys of scan_iter('user:*').  A subscriber's cached   *)
(* record is one of: "empty" (hgetall gives nothing), "no_telegram" (no    *)
(* telegram_id field), "no_match" (the filters decode and apply_filters    *)
(* gives False), "match" (it gives True and the send succeeds),            *)
(* "match_unsent" (it gives True and send_telegram_message returns False), *)
(* "undecodable" (json.loads raises on the filters field) and "not_a_dict" *)
(* (the filters decode to a list or null, on which filters.get raises).    *)
(***************************************************************************)
MaxFanout == 3

RecordKinds ==
    {"empty", "no_telegram", "no_match", "match", "match_unsent",
     "undecodable", "not_a_dict"}

Matching == {"match", "match_unsent"}

CachedRecords == UNION { [1..n -> RecordKinds] : n \in 1..MaxFanout }

NoFanout ==
    [pc |-> "get", records |-> << >>, i |-> 0, dispatched |-> {},
     delivered |-> {}, raised |-> FALSE]

\* The body of the for loop for the record at position f.i: `continue`, a
\* send, or an exception that goes to the except clause of the while loop.
visit(f) ==
    LET kind == f.records[f.i]
        next == IF f.i = Len(f.records)
                THEN [f EXCEPT !.pc = "done"] ELSE [f EXCEPT !.i = @ + 1]
    IN  CASE kind \in {"empty", "no_telegram", "no_match"} -> next
          [] kind = "match" ->
                [next EXCEPT !.dispatched = @ \cup {f.i},
                             !.delivered = @ \cup {f.i}]
          [] kind = "match_unsent" -> [next EXCEPT !.dispatched = @ \cup {f.i}]
          [] OTHER -> [f EXCEPT !.pc = "done", !.raised = TRUE]

(***************************************************************************)
(* The subscriber cache (notification_worker.py): the Redis keys           *)
(* user:{id} (a hash with filters and telegram_id) and telegram_map:{tg}   *)
(* (a user id), kept by initialize_user_cache and handle_user_changes from *)
(* the rows of user_wallets with their user_information, user_filters and  *)
(* user_subscriptions.  A user here is: present (the user_wallets row      *)
(* exists), subscribed (user_subscriptions is not empty), information      *)
(* (user_information exists) and telegram (the provider_id of the          *)
(* telegram entry of linked_accounts, Null when there is none).  In the    *)
(* cache, user[u] is the telegram_id of user:{u}, Null when the key does   *)
(* not exist, and telegram_map[tg] is the user id, 0 when the key does not *)
(* exist.                                                                  *)
(***************************************************************************)
MaxCacheUsers == 2

CacheUsers == 1..MaxCacheUsers

TelegramIds == {"tg1", "tg2"}

UserStates ==
    [present : BOOLEAN, subscribed : BOOLEAN, information : BOOLEAN,
     telegram : TelegramIds \cup {Null}]

NoUser ==
    [present |-> FALSE, subscribed |-> FALSE, information |-> FALSE,
     telegram |-> Null]

EmptyCache ==
    [db |-> [u \in CacheUsers |-> NoUser],
     user |-> [u \in CacheUsers |-> Null],
     telegram_map |-> [tg \in TelegramIds |-> 0]]

\* The checks of handle_user_changes before it stores: the user exists, has
\* a subscription, user information, and a telegram account linked.
Cacheable(row) ==
    row.present /\ row.subscribed /\ row.information /\ row.telegram # Null

\* handle_user_changes for user u, on the rows the database holds now.
handle_user_changes(c, u) ==
    IF ~Cacheable(c.db[u])
    THEN [c EXCEPT !.telegram_map =
                      [tg \in TelegramIds |->
                          IF tg = c.user[u] THEN 0 ELSE @[tg]],
                   !.user[u] = Null]
    ELSE [c EXCEPT !.user[u] = c.db[u].telegram,
                   !.telegram_map[c.db[u].telegram] = u]

(***************************************************************************)
(* State.                                                                  *)
(*   webhook_queue       Redis list: the gateway appends, workers blpop    *)
(*   retry_queue         Redis sorted set: entries [member, score]         *)
(*   failed_events       Redis list, the dead letters                      *)
(*   notification_queue  Redis list of [event_type, event_id]              *)
(*   tokens, n_source, n_audit, n_info   the relational store              *)
(*   now                 the wall clock, time.time()                       *)
(*   worker              per worker process: pc (position in start_worker  *)
(*                       and process_retry_queue), at (the `now` local of  *)
(*                       process_retry_queue), ready (ready_events still   *)
(*                       to process), h (the handler context; after a      *)
(*                       return it keeps the job and the return value)     *)
(*   arrived             the event ids the gateway has enqueued            *)
(*   finished            the event ids whose handler returned True         *)
(*   runs                the number of attempts begun by direct delivery   *)
(*   episode             history: the shared state when the attempts now   *)
(*                       overlapping began (base) and those attempts' jobs *)
(*                       and replies (conc)                                *)
(*   gateway             the gateway's requests so far: their number (n)   *)
(*                       and the last one with the webhook_queue before    *)
(*                       it, the response and the jobs it pushed           *)
(*   filtering           the last apply_filters call: the filter record,   *)
(*                       the message snapshot and the result               *)
(*   limiter             the notification worker: messages_sent,           *)
(*                       rate_limit_start_time, the holder of              *)
(*                       rate_limit_lock, each consumer thread's position  *)
(*                       and locals, its clock and the sends so far        *)
(*   lock_calc           the last call of sum_locked_lp_percent: its       *)
(*                       arguments and what it returned                    *)
(*   fetching            a new_token job in its lookups: the call site,    *)
(*                       the attempt of fetch_with_retry, per site the     *)
(*                       calls made, the seconds slept and what the call   *)
(*                       raised, the results kept, and the job's return    *)
(*   sending             a consumer thread: its position, the messages     *)
(*                       still in message_queue, the subscriber it sends   *)
(*                       to, the attempt and the requests of this send,    *)
(*                       the last response and the sleep it led to, and    *)
(*                       the results of the sends so far                   *)
(*   fanout              the fan-out of one message: the cached records in *)
(*                       scan order, the position of the loop, the         *)
(*                       subscribers a send was issued to and those it     *)
(*                       reached, and whether the loop ended by exception  *)
(*   cache               the subscriber cache and the database rows it is  *)
(*                       kept from (db, user, telegram_map)                *)
(***************************************************************************)
VARIABLES webhook_queue, retry_queue, failed_events, notification_queue,
          tokens, n_source, n_audit, n_info, now, worker, arrived,
          finished, runs, episode, gateway, filtering, limiter, lock_calc,
          fetching, sending, fanout, cache

vars == << webhook_queue, retry_queue, failed_events, notification_queue,
           tokens, n_source, n_audit, n_info, now, worker, arrived,
           finished, runs, episode, gateway, filtering, limiter, lock_calc,
           fetching, sending, fanout, cache >>

storeVars == << tokens, n_source, n_audit, n_info >>

\* The state of the calls that are modelled on their own.
auxVars == << lock_calc, fetching, sending, fanout, cache >>

\* The state of the gateway's history, of the filter and of the notifier.
extVars == << gateway, filtering, limiter, auxVars >>

Shared ==
    [tokens |-> tokens, n_source |-> n_source, n_audit |-> n_audit,
     n_info |-> n_info, retry_queue |-> retry_queue,
     failed_events |-> failed_events, notification_queue |-> notification_queue]

EmptyShared ==
    [tokens |-> {}, n_source |-> 0, n_audit |-> 0, n_info |-> 0,
     retry_queue |-> {}, failed_events |-> << >>, notification_queue |-> << >>]

\* The shared state after a handler step or run.
Commit(S) ==
    /\ tokens' = S.tokens
    /\ n_source' = S.n_source
    /\ n_audit' = S.n_audit
    /\ n_info' = S.n_info
    /\ retry_queue' = S.retry_queue
    /\ failed_events' = S.failed_events
    /\ notification_queue' = S.notification_queue

IdleWorker == [pc |-> "retry_read", at |-> 0, ready |-> << >>, h |-> IdleCtx]

NoEpisode == [base |-> EmptyShared, conc |-> << >>]

Init ==
    /\ webhook_queue = << >>
    /\ retry_queue = {}
    /\ failed_events = << >>
    /\ notification_queue = << >>
    /\ tokens = {}
    /\ n_source = 0
    /\ n_audit = 0
    /\ n_info = 0
    /\ now = 0
    /\ worker = [w \in Workers |-> IdleWorker]
    /\ arrived = {}
    /\ finished = {}
    /\ runs = 0
    /\ episode = NoEpisode
    /\ gateway = NoRequest
    /\ filtering = NoFiltering
    /\ limiter = InitLimiter
    /\ lock_calc = NoLockCalc
    /\ fetching = IdleFetch
    /\ sending = InitSending
    /\ fanout = NoFanout
    /\ cache = EmptyCache

\* The order of ZRANGEBYSCORE: by score, ties by member.
EntryBefore(x, y) ==
    \/ x.score < y.score
    \/ /\ x.score = y.score
       /\ \/ x.member.event_id < y.member.event_id
          \/ /\ x.member.event_id = y.member.event_id
             /\ x.member.retry_count < y.member.retry_count

RECURSIVE SortedMembers(_)
SortedMembers(entries) ==
    IF entries = {} THEN << >>
    ELSE LET first == CHOOSE x \in entries :
                          \A y \in entries \ {x} : EntryBefore(x, y)
         IN  << first.member >> \o SortedMembers(entries \ {first})

\* zrangebyscore returning every entry, whatever its score.
zrangebyscore_any_score(rq, t) == SortedMembers(rq)

\* redis.zrangebyscore('retry_queue', 0, t)
zrangebyscore(rq, t) == SortedMembers({ x \in rq : x.score <= t })

\* redis.zremrangebyscore('retry_queue', 0, t)
zremrangebyscore(rq, t) == { x \in rq : x.score > t }

(***************************************************************************)
(* The replies drawn in the queue specifications: every way an attempt can *)
(* end (success, not a token, failure before the store, failure of the     *)
(* store), with the enrichment replies that write no child row.  The store *)
(* specification below draws from all of Responses.                        *)
(***************************************************************************)
QueueReplies == { r \in Responses : r.source = "unverified" /\ r.audit = "fail" }

(***************************************************************************)
(* The gateway: redis_client.rpush('webhook_queue', json.dumps(event_data)) *)
(* with a fresh event id and retry_count 0.                                *)
(***************************************************************************)
Enqueue(e, kind, lp) ==
    /\ e \notin arrived
    /\ arrived' = arrived \cup {e}
    /\ webhook_queue' = Append(webhook_queue, NewJob(e, kind, lp))
    /\ UNCHANGED << retry_queue, failed_events, notification_queue, storeVars,
                    now, worker, finished, runs, episode, extVars >>

\* Time passes.  The clock is read only to compute and to compare the
\* scores of retry_queue, so it is advanced only while an entry waits.
Tick ==
    /\ now < MaxTime
    /\ \E x \in retry_queue : x.score > now
    /\ now' = now + 1
    /\ UNCHANGED << webhook_queue, retry_queue, failed_events,
                    notification_queue, storeVars, worker, arrived, finished,
                    runs, episode, extVars >>

(***************************************************************************)
(* The worker loop of start_worker, with process_retry_queue inlined.  In  *)
(* these actions a handler runs from its call to its return in one step.   *)
(***************************************************************************)
\* process_retry_queue: now = time.time(); ready_events = zrangebyscore(...)
RetryRead(w) ==
    /\ worker[w].pc = "retry_read"
    /\ LET ready == zrangebyscore(retry_queue, now)
       IN  worker' = [worker EXCEPT ![w].at = now, ![w].ready = ready,
                         ![w].pc = IF ready = << >> THEN "blpop"
                                   ELSE "retry_remove"]
    /\ UNCHANGED << webhook_queue, retry_queue, failed_events,
                    notification_queue, storeVars, now, arrived, finished,
                    runs, episode, extVars >>

\* process_retry_queue: self.redis.zremrangebyscore('retry_queue', 0, now)
RetryRemove(w) ==
    /\ worker[w].pc = "retry_remove"
    /\ retry_queue' = zremrangebyscore(retry_queue, worker[w].at)
    /\ worker' = [worker EXCEPT ![w].pc = "retry_process"]
    /\ UNCHANGED << webhook_queue, failed_events, notification_queue,
                    storeVars, now, arrived, finished, runs, episode,
                    extVars >>

\* What a whole handler run on job leaves behind, for replies resp.
Processed(job, resp) == RunHandler(Shared, StartCtx(job, resp), now)

\* The context a worker keeps after a return: the job and the return value.
Returned(h) == [IdleCtx EXCEPT !.pc = "done", !.job = h.job, !.res = h.res]

Finished(h) == IF h.res = "ok" THEN finished \cup {h.job.event_id} ELSE finished

\* process_retry_queue: await self.process_webhook(event_data), per entry
RetryProcess(w) ==
    /\ worker[w].pc = "retry_process"
    /\ worker[w].ready # << >>
    /\ \E r \in { Processed(Head(worker[w].ready), resp) : resp \in QueueReplies } :
          /\ Commit(r.S)
          /\ finished' = Finished(r.h)
          /\ worker' = [worker EXCEPT ![w].ready = Tail(@),
                           ![w].h = Returned(r.h),
                           ![w].pc = IF Tail(worker[w].ready) = << >>
                                     THEN "blpop" ELSE "retry_process"]
    /\ UNCHANGED << webhook_queue, now, arrived, runs, episode, extVars >>

\* start_worker: _, data = processor.redis.blpop('webhook_queue')
Blpop(w) ==
    /\ worker[w].pc = "blpop"
    /\ webhook_queue # << >>
    /\ webhook_queue' = Tail(webhook_queue)
    /\ worker' = [worker EXCEPT ![w].pc = "process",
                     ![w].h = [IdleCtx EXCEPT !.job = Head(webhook_queue)]]
    /\ UNCHANGED << retry_queue, failed_events, notification_queue, storeVars,
                    now, arrived, finished, runs, episode, extVars >>

\* start_worker: await processor.process_webhook(event_data)
Process(w) ==
    /\ worker[w].pc = "process"
    /\ worker[w].h.pc = "idle"
    /\ \E r \in { Processed(worker[w].h.job, resp) : resp \in QueueReplies } :
          /\ Commit(r.S)
          /\ finished' = Finished(r.h)
          /\ worker' = [worker EXCEPT ![w] =
                           [IdleWorker EXCEPT !.h = Returned(r.h)]]
    /\ UNCHANGED << webhook_queue, now, arrived, runs, episode, extVars >>

WorkerStep(w) ==
    \/ RetryRead(w)
    \/ RetryRemove(w)
    \/ RetryProcess(w)
    \/ Blpop(w)
    \/ Process(w)

Next ==
    \/ \E e \in EventIds, kind \in EventTypes, lp \in {PairAddress, Null} :
          Enqueue(e, kind, lp)
    \/ Tick
    \/ \E w \in Workers : WorkerStep(w)

Spec == Init /\ [][Next]_vars

(***************************************************************************)
(* The same system when worker processes can be killed and started again.  *)
(***************************************************************************)
\* The worker process is killed (SIGKILL, crash, power loss): everything it
\* held in memory is gone.
Kill(w) ==
    /\ worker[w].pc # "killed"
    /\ worker' = [worker EXCEPT ![w] = [IdleWorker EXCEPT !.pc = "killed"]]
    /\ UNCHANGED << webhook_queue, retry_queue, failed_events,
                    notification_queue, storeVars, now, arrived, finished,
                    runs, episode, extVars >>

\* A new worker process is started in its place.
Restart(w) ==
    /\ worker[w].pc = "killed"
    /\ worker' = [worker EXCEPT ![w] = IdleWorker]
    /\ UNCHANGED << webhook_queue, retry_queue, failed_events,
                    notification_queue, storeVars, now, arrived, finished,
                    runs, episode, extVars >>

KillNext ==
    \/ Next
    \/ \E w \in Workers : Kill(w)
    \/ \E w \in Workers : Restart(w)

KillSpec == Init /\ [][KillNext]_vars

(***************************************************************************)
(* The worker loop when an exception leaves process_webhook or a Redis     *)
(* call.  process_webhook catches every Exception of its handlers, but its *)
(* except clause calls handle_failed_event, whose zadd/rpush is outside    *)
(* any try: when that write raises, the exception goes up to the           *)
(* `except Exception` of start_worker, which logs, sleeps and starts the   *)
(* next iteration.                                                         *)
(***************************************************************************)
MaxLoopJobs == 2

LoopWorker == CHOOSE w \in Workers : TRUE

\* The context of a worker whose call on job ended with an exception.
Raised(job) == [IdleCtx EXCEPT !.pc = "done", !.job = job, !.res = "raised"]

\* process_retry_queue: an exception leaves the for loop over ready_events
\* (json.loads or process_webhook on the current entry); ready_events is a
\* local of the call that is left.
RetryEscape(w) ==
    /\ worker[w].pc = "retry_process"
    /\ worker[w].ready # << >>
    /\ worker' = [worker EXCEPT ![w] =
                     [IdleWorker EXCEPT !.h = Raised(Head(worker[w].ready))]]
    /\ UNCHANGED << webhook_queue, retry_queue, failed_events,
                    notification_queue, storeVars, now, arrived, finished,
                    runs, episode, extVars >>

\* start_worker: blpop raises (the connection is lost); nothing was popped.
BlpopEscape(w) ==
    /\ worker[w].pc = "blpop"
    /\ worker' = [worker EXCEPT ![w] = [IdleWorker EXCEPT !.h = Raised(NoJob)]]
    /\ UNCHANGED << webhook_queue, retry_queue, failed_events,
                    notification_queue, storeVars, now, arrived, finished,
                    runs, episode, extVars >>

\* start_worker: an exception leaves process_webhook on the popped job.
ProcessEscape(w) ==
    /\ worker[w].pc = "process"
    /\ worker[w].h.pc = "idle"
    /\ worker' = [worker EXCEPT ![w] =
                     [IdleWorker EXCEPT !.h = Raised(worker[w].h.job)]]
    /\ UNCHANGED << webhook_queue, retry_queue, failed_events,
                    notification_queue, storeVars, now, arrived, finished,
                    runs, episode, extVars >>

\* One worker process runs the loop.
ErrorNext ==
    \/ \E e \in 1..MaxLoopJobs : Enqueue(e, "new_token", Null)
    \/ Tick
    \/ WorkerStep(LoopWorker)
    \/ RetryEscape(LoopWorker)
    \/ BlpopEscape(LoopWorker)
    \/ ProcessEscape(LoopWorker)

ErrorSpec == Init /\ [][ErrorNext]_vars

(***************************************************************************)
(* The worker loop under fair scheduling: a worker that can take a step    *)
(* eventually takes one, and time passes.  The gateway is not obliged to   *)
(* deliver anything.                                                       *)
(***************************************************************************)
LiveSpec ==
    /\ Init
    /\ [][Next]_vars
    /\ WF_vars(Tick)
    /\ \A w \in Workers : WF_vars(WorkerStep(w))

(***************************************************************************)
(* The handlers step by step: each worker takes a job for the token and    *)
(* runs its handler one store call at a time, so that the calls of two     *)
(* workers interleave.  At most MaxRuns jobs are taken.  episode records,  *)
(* for the properties, the shared state when the first of a group of       *)
(* overlapping runs began (base) and the runs of the group (conc).         *)
(***************************************************************************)
\* The replies drawn here: no collaborator fails outright (those attempts
\* are the queue specifications' subject), the token is an ERC-20 with
\* verified source and social links, and the audit fails, says scam, or
\* succeeds with or without a renounced owner.
StoreReplies ==
    { r \in Responses : r.err = "none" /\ r.basic /\ r.source = "social" }

InHandler(w) == worker[w].h.pc \notin {"idle", "done"}

Quiescent == \A w \in Workers : ~InHandler(w)

\* start_worker: a job arrives and the worker calls process_webhook on it.
StoreTake(w, kind, resp) ==
    LET job == NewJob(runs + 1, kind, PairAddress)
        run == [job |-> job, resp |-> resp]
    IN  /\ runs < MaxRuns
        /\ ~InHandler(w)
        /\ runs' = runs + 1
        /\ worker' = [worker EXCEPT ![w].h = StartCtx(job, resp)]
        /\ episode' = IF Quiescent
                      THEN [base |-> Shared, conc |-> << run >>]
                      ELSE [episode EXCEPT !.conc = Append(@, run)]
        /\ UNCHANGED << webhook_queue, retry_queue, failed_events,
                        notification_queue, storeVars, now, arrived, finished,
                        extVars >>

\* The handler of worker w up to and including its next store call.
StoreStep(w) ==
    /\ InHandler(w)
    /\ \E r \in { HStep(Shared, worker[w].h, now) } :
          /\ Commit(r.S)
          /\ worker' = [worker EXCEPT ![w].h =
                           IF r.h.pc = "done" THEN Returned(r.h) ELSE r.h]
          /\ finished' = IF r.h.pc = "done" THEN Finished(r.h) ELSE finished
    /\ UNCHANGED << webhook_queue, now, arrived, runs, episode, extVars >>

StoreNext ==
    \/ \E w \in Workers, kind \in EventTypes, resp \in StoreReplies :
          StoreTake(w, kind, resp)
    \/ \E w \in Workers : StoreStep(w)

StoreSpec == Init /\ [][StoreNext]_vars

(***************************************************************************)
(* One worker at a time: a job arrives and process_webhook runs on it from *)
(* its call to its return, for any replies of the collaborators.           *)
(***************************************************************************)
SerialRun(w, kind, resp) ==
    LET job == NewJob(runs + 1, kind, PairAddress)
    IN  /\ runs < MaxRuns
        /\ runs' = runs + 1
        /\ episode' = [base |-> Shared, conc |-> << [job |-> job, resp |-> resp] >>]
        /\ \E r \in { Processed(job, resp) } :
              /\ Commit(r.S)
              /\ worker' = [worker EXCEPT ![w].h = Returned(r.h)]
              /\ finished' = Finished(r.h)
        /\ UNCHANGED << webhook_queue, now, arrived, extVars >>

SerialNext ==
    \E w \in Workers, kind \in EventTypes, resp \in Responses :
        SerialRun(w, kind, resp)

SerialSpec == Init /\ [][SerialNext]_vars

(***************************************************************************)
(* The gateway handles one request: process_webhook from the signature     *)
(* check to the response, with the pushes to webhook_queue in between.     *)
(***************************************************************************)
Receive(req) ==
    /\ gateway.n < MaxRequests
    /\ \E out \in process_webhook(req, gateway.n + 1, webhook_queue) :
          /\ webhook_queue' = out.queue
          /\ gateway' = [n |-> gateway.n + 1, req |-> req,
                         before |-> webhook_queue, status |-> out.status,
                         message |-> out.message]
    /\ UNCHANGED << retry_queue, failed_events, notification_queue, storeVars,
                    now, worker, arrived, finished, runs, episode, filtering,
                    limiter, auxVars >>

GatewayNext == \E req \in Requests : Receive(req)

GatewaySpec == Init /\ [][GatewayNext]_vars

(***************************************************************************)
(* One call of apply_filters by a consumer, for a user's filter record and *)
(* the message it took from the queue.                                     *)
(***************************************************************************)
ApplyFilters(f, m) ==
    /\ filtering' = [filter |-> f, snapshot |-> m, result |-> apply_filters(f, m)]
    /\ UNCHANGED << webhook_queue, retry_queue, failed_events,
                    notification_queue, storeVars, now, worker, arrived,
                    finished, runs, episode, gateway, limiter, auxVars >>

FilterNext ==
    /\ filtering.result = "none"
    /\ \E f \in Filters, m \in Snapshots : ApplyFilters(f, m)

FilterSpec == Init /\ [][FilterNext]_vars

(***************************************************************************)
(* message_consumer, for one user whose filter passed.  The statements     *)
(* under `with rate_limit_lock` are steps Enter, Wake and Reset; the send  *)
(* and messages_sent += 1 (a load and a store of the global) follow after  *)
(* the lock is released.                                                   *)
(***************************************************************************)
\* The variables of the queue, the store, the gateway and the filter.
restVars ==
    << webhook_queue, retry_queue, failed_events, notification_queue,
       storeVars, now, worker, arrived, finished, runs, episode, gateway,
       filtering, auxVars >>

\* with rate_limit_lock: if messages_sent >= 30: elapsed_time = ...
Enter(c) ==
    /\ limiter.pc[c] = "idle"
    /\ limiter.lock = Null
    /\ limiter.sent < MaxSends
    /\ limiter' =
          IF limiter.messages_sent >= RATE_LIMIT
          THEN IF limiter.clock - limiter.rate_limit_start_time < TicksPerSecond
               THEN [limiter EXCEPT !.lock = c, !.pc[c] = "sleeping"]
               ELSE [limiter EXCEPT !.lock = c, !.pc[c] = "reset"]
          ELSE [limiter EXCEPT !.pc[c] = "send"]
    /\ UNCHANGED restVars

\* time.sleep(1 - elapsed_time) returns
Wake(c) ==
    /\ limiter.pc[c] = "sleeping"
    /\ limiter.clock >= limiter.rate_limit_start_time + TicksPerSecond
    /\ limiter' = [limiter EXCEPT !.pc[c] = "reset"]
    /\ UNCHANGED restVars

\* messages_sent = 0; rate_limit_start_time = time.time(); the lock is released
Reset(c) ==
    /\ limiter.pc[c] = "reset"
    /\ limiter' = [limiter EXCEPT !.messages_sent = 0,
                                  !.rate_limit_start_time = limiter.clock,
                                  !.lock = Null, !.pc[c] = "send"]
    /\ UNCHANGED restVars

\* send_telegram_message(tg_id, display_message)
Send(c) ==
    /\ limiter.pc[c] = "send"
    /\ limiter' = [limiter EXCEPT !.sent_at[TicksPerSecond] = @ + 1,
                                  !.sent = @ + 1, !.pc[c] = "load"]
    /\ UNCHANGED restVars

\* messages_sent += 1: the global is loaded
Load(c) ==
    /\ limiter.pc[c] = "load"
    /\ limiter' = [limiter EXCEPT !.loaded[c] = limiter.messages_sent,
                                  !.pc[c] = "store"]
    /\ UNCHANGED restVars

\* messages_sent += 1: the sum is stored
Store(c) ==
    /\ limiter.pc[c] = "store"
    /\ limiter' = [limiter EXCEPT !.messages_sent = limiter.loaded[c] + 1,
                                  !.loaded[c] = 0, !.pc[c] = "idle"]
    /\ UNCHANGED restVars

\* The clock advances by one tick.
Pass ==
    /\ limiter.clock < MaxClock
    /\ limiter' = [limiter EXCEPT !.clock = @ + 1,
                                  !.sent_at = Append(Tail(@), 0)]
    /\ UNCHANGED restVars

ConsumerStep(c) ==
    \/ Enter(c)
    \/ Wake(c)
    \/ Reset(c)
    \/ Send(c)
    \/ Load(c)
    \/ Store(c)

RateNext ==
    \/ \E c \in Consumers : ConsumerStep(c)
    \/ Pass

RateSpec == Init /\ [][RateNext]_vars

(***************************************************************************)
(* One call of sum_locked_lp_percent, on an audit reply and a lock's       *)
(* transformed data.                                                       *)
(***************************************************************************)
\* The variables of the queue, the store, the gateway and the notifier.
coreVars ==
    << webhook_queue, retry_queue, failed_events, notification_queue,
       storeVars, now, worker, arrived, finished, runs, episode, gateway,
       filtering, limiter >>

LockCalc(raw_results, transformed_data) ==
    /\ lock_calc' = [raw_results |-> raw_results,
                     transformed_data |-> transformed_data,
                     result |-> locked_lp_percent(raw_results, transformed_data),
                     called |-> TRUE]
    /\ UNCHANGED << coreVars, fetching, sending, fanout, cache >>

LockNext ==
    /\ ~lock_calc.called
    /\ \E raw_results \in RawResults, transformed_data \in TransformedData :
          LockCalc(raw_results, transformed_data)

LockSpec == Init /\ [][LockNext]_vars

(***************************************************************************)
(* message_consumer: one message taken from message_queue and fanned out.  *)
(***************************************************************************)
\* message = message_queue.get(); the keys scan_iter will give
FanoutGet(records) ==
    /\ fanout.pc = "get"
    /\ fanout' = [NoFanout EXCEPT !.pc = "loop", !.records = records, !.i = 1]
    /\ UNCHANGED << coreVars, lock_calc, fetching, sending, cache >>

\* One pass of `for user_key in redis_client.scan_iter('user:*')`.
FanoutVisit ==
    /\ fanout.pc = "loop"
    /\ fanout' = visit(fanout)
    /\ UNCHANGED << coreVars, lock_calc, fetching, sending, cache >>

FanoutNext ==
    \/ \E records \in CachedRecords : FanoutGet(records)
    \/ FanoutVisit

FanoutSpec == Init /\ [][FanoutNext]_vars

(***************************************************************************)
(* The cache listener: a row of user u changes in the database and the     *)
(* realtime callback runs handle_user_changes for it.  The handler has no  *)
(* await, so it runs to its end before the next event is handled.          *)
(***************************************************************************)
UserChange(u, row) ==
    /\ row # cache.db[u]
    /\ cache' = handle_user_changes([cache EXCEPT !.db[u] = row], u)
    /\ UNCHANGED << coreVars, lock_calc, fetching, sending, fanout >>

CacheNext == \E u \in CacheUsers, row \in UserStates : UserChange(u, row)

CacheSpec == Init /\ [][CacheNext]_vars

(***************************************************************************)
(* process_new_token from its first lookup on: the three calls of          *)
(* fetch_with_retry, then the store and the notification as a handler run  *)
(* on the replies the lookups left.                                        *)
(***************************************************************************)
\* The variables of the worker loop, the gateway and the notifier.
loopVars ==
    << webhook_queue, worker, arrived, finished, runs, episode, gateway,
       filtering, limiter, lock_calc, sending, fanout, cache >>

\* process_new_token is called on a job.
FetchStart ==
    /\ fetching.pc = "idle"
    /\ fetching' = [fetching EXCEPT !.pc = "call"]
    /\ UNCHANGED << retry_queue, failed_events, notification_queue, storeVars,
                    now, loopVars >>

\* The call site after its lookup returned or raised.
AfterSite(f) ==
    CASE f.site = "basic" -> [f EXCEPT !.site = "source", !.attempt = 0]
      [] f.site = "source" -> [f EXCEPT !.site = "audit", !.attempt = 0]
      [] f.site = "audit" -> [f EXCEPT !.pc = "store", !.attempt = 0]

\* One call of the collaborator inside fetch_with_retry, up to the return,
\* the sleep or the raise that follows it.
FetchCall(reply, source, audit) ==
    LET f == [fetching EXCEPT !.calls[fetching.site] = @ + 1]
    IN  /\ fetching.pc = "call"
        /\ reply = "none" => fetching.site = "basic"
        /\ IF reply = "ok"
           THEN /\ fetching' = AfterSite([f EXCEPT
                        !.source = IF f.site = "source" THEN source ELSE @,
                        !.audit = IF f.site = "audit" THEN audit ELSE @])
                /\ UNCHANGED << retry_queue, failed_events >>
           ELSE IF reply = "none"
           THEN \* if not basic_info: return True
                /\ fetching' = [f EXCEPT !.pc = "done", !.res = "ok"]
                /\ UNCHANGED << retry_queue, failed_events >>
           ELSE IF RetriesLeft(fetching, reply)
           THEN /\ fetching' = [f EXCEPT !.pc = "sleep"]
                /\ UNCHANGED << retry_queue, failed_events >>
           ELSE IF fetching.site = "basic"
           THEN \* raise, caught by process_new_token's outer handler
                /\ fetching' = [f EXCEPT !.pc = "done", !.res = "fail",
                                         !.raised["basic"] = reply]
                /\ \E S \in { handle_failed_event(Shared, FetchJob, now) } :
                      /\ retry_queue' = S.retry_queue
                      /\ failed_events' = S.failed_events
           ELSE \* raise, caught at the call site
                /\ fetching' = AfterSite([f EXCEPT !.raised[f.site] = reply])
                /\ UNCHANGED << retry_queue, failed_events >>
        /\ UNCHANGED << notification_queue, storeVars, now, loopVars >>

\* await asyncio.sleep(base_delay * (2 ** attempt)); continue
FetchWake ==
    LET delay == fetch_base_delay * (2 ^ fetching.attempt)
    IN  /\ fetching.pc = "sleep"
        /\ fetching' = [fetching EXCEPT !.pc = "call", !.attempt = @ + 1,
                                        !.slept[fetching.site] = @ + delay]
        /\ now' = now + delay
        /\ UNCHANGED << retry_queue, failed_events, notification_queue,
                        storeVars, loopVars >>

\* Steps 4 to 6 of process_new_token: the store and the notification.
FetchStore ==
    /\ fetching.pc = "store"
    /\ \E r \in { RunHandler(Shared,
                              [StartCtx(FetchJob, FetchedResponse(fetching))
                                  EXCEPT !.pc = "nt_select"], now) } :
          /\ Commit(r.S)
          /\ fetching' = [fetching EXCEPT !.pc = "done", !.res = r.h.res]
    /\ UNCHANGED << now, loopVars >>

FetchNext ==
    \/ FetchStart
    \/ \E reply \in FetchReplies, source \in SourceResults,
          audit \in AuditResults : FetchCall(reply, source, audit)
    \/ FetchWake
    \/ FetchStore

FetchSpec == Init /\ [][FetchNext]_vars

(***************************************************************************)
(* A consumer thread sending the queued messages to the subscribers.  The  *)
(* send budget it keeps before each send is the limiter's above.           *)
(***************************************************************************)
\* message = message_queue.get(), and the first subscriber of the loop
SendGet ==
    /\ sending.pc = "get"
    /\ sending.queued > 0
    /\ sending' = [sending EXCEPT !.pc = "post", !.queued = @ - 1,
                                  !.subscriber = 1, !.attempt = 0, !.posts = 0,
                                  !.status = "none", !.result = "none"]
    /\ UNCHANGED << coreVars, lock_calc, fetching, fanout, cache >>

\* One pass of the loop of send_telegram_message: requests.post and what
\* follows its response or exception, up to the sleep or the return.
SendPost(reply, parameter) ==
    LET s == [sending EXCEPT !.posts = @ + 1, !.status = reply,
                             !.parameter = IF reply = "429" THEN parameter
                                           ELSE NullNum]
    IN  /\ sending.pc = "post"
        /\ reply # "429" => parameter = NullNum
        /\ sending' =
              CASE reply = "200" -> [s EXCEPT !.pc = "sent", !.result = "true"]
                [] reply = "429" ->
                      [s EXCEPT !.pc = "sleep", !.wait = retry_after(parameter)]
                [] reply = "RequestException"
                      /\ sending.attempt # send_max_retries - 1 ->
                      [s EXCEPT !.pc = "sleep",
                                !.wait = send_base_delay * (2 ^ sending.attempt)]
                [] OTHER -> [s EXCEPT !.pc = "sent", !.result = "false"]
        /\ UNCHANGED << coreVars, lock_calc, fetching, fanout, cache >>

\* time.sleep(...) ends: the next pass of the loop, or `return False` after
\* the last one.
SendWake ==
    /\ sending.pc = "sleep"
    /\ sending' = IF sending.attempt + 1 < send_max_retries
                  THEN [sending EXCEPT !.pc = "post", !.attempt = @ + 1]
                  ELSE [sending EXCEPT !.pc = "sent", !.result = "false"]
    /\ UNCHANGED << coreVars, lock_calc, fetching, fanout, cache >>

\* send_telegram_message returned: messages_sent += 1 and the next
\* subscriber, or message_queue.task_done() after the last one.
SendContinue ==
    LET done == Append(sending.outcomes,
                       [result |-> sending.result, posts |-> sending.posts])
    IN  /\ sending.pc = "sent"
        /\ sending' =
              IF sending.subscriber < MaxSubscribers
              THEN [sending EXCEPT !.pc = "post", !.subscriber = @ + 1,
                                   !.attempt = 0, !.posts = 0,
                                   !.status = "none", !.result = "none",
                                   !.outcomes = done]
              ELSE [sending EXCEPT !.pc = "get", !.subscriber = 0,
                                   !.attempt = 0, !.posts = 0,
                                   !.status = "none", !.result = "none",
                                   !.outcomes = done]
        /\ UNCHANGED << coreVars, lock_calc, fetching, fanout, cache >>

SendNext ==
    \/ SendGet
    \/ \E reply \in SendReplies, parameter \in RetryAfters :
          SendPost(reply, parameter)
    \/ SendWake
    \/ SendContinue

SendSpec == Init /\ [][SendNext]_vars

\* The consumer thread keeps running: a request is answered or raises, a
\* sleep ends, and the loop goes on.
SendLiveSpec == SendSpec /\ WF_vars(SendNext)

(***************************************************************************)
(* Vocabulary of the properties.                                           *)
(***************************************************************************)
Range(q) == { q[i] : i \in 1..Len(q) }

Members(rq) == { x.member : x \in rq }

\* In this step worker w's handler returns; worker'[w].h holds the job it
\* was called with and its return value.
AttemptEnds(w) ==
    /\ worker'[w].h.pc = "done"
    /\ \/ worker[w].h.pc # "done"
       \/ Len(worker'[w].ready) < Len(worker[w].ready)

FailedAttempt(w) == AttemptEnds(w) /\ worker'[w].h.res = "fail"

\* The jobs worker w has taken and not finished processing.
InFlight(w) ==
    CASE worker[w].pc = "process" -> { worker[w].h.job }
      [] worker[w].pc = "retry_process" -> Range(worker[w].ready)
      [] OTHER -> {}

\* The copies of event e in the queue structures and in the workers.
Copies(e) ==
    Cardinality({ i \in 1..Len(webhook_queue) : webhook_queue[i].event_id = e })
    + Cardinality({ x \in retry_queue : x.member.event_id = e })
    + Cardinality({ i \in 1..Len(failed_events) : failed_events[i].event_id = e })
    + Cardinality({ w \in Workers : \E j \in InFlight(w) : j.event_id = e })

Dead(e) == \E i \in 1..Len(failed_events) : failed_events[i].event_id = e

\* The job j as handle_failed_event records it after its n-th failure.
RecordedAs(j, n) == [j EXCEPT !.retry_count = n, !.last_retry = now]

\* In this step worker w's attempt on a job fails and is recorded once:
\* in retry_queue while the new count is at most MAX_RETRIES, else at the
\* end of failed_events.
FailureRecordedOnce(w) ==
    LET j == worker'[w].h.job
        n == j.retry_count + 1
    IN  /\ FailedAttempt(w)
        /\ \/ /\ n <= MAX_RETRIES
              /\ retry_queue' = zadd(retry_queue, RecordedAs(j, n),
                                     now + RETRY_DELAY * (2 ^ (n - 1)))
              /\ failed_events' = failed_events
           \/ /\ n = MAX_RETRIES + 1
              /\ failed_events' = Append(failed_events, RecordedAs(j, n))
              /\ retry_queue' = retry_queue

\* retry_queue gains an entry or failed_events changes only that way.
RecordStepRule ==
    (~(retry_queue' \subseteq retry_queue) \/ failed_events' # failed_events)
        => \E w \in Workers : FailureRecordedOnce(w)

\* The counts the structures hold: 0 in webhook_queue, 1..MAX_RETRIES in
\* retry_queue, MAX_RETRIES + 1 in failed_events.
RecordedCounts ==
    /\ \A i \in 1..Len(webhook_queue) : webhook_queue[i].retry_count = 0
    /\ \A x \in retry_queue : x.member.retry_count \in 1..MAX_RETRIES
    /\ \A i \in 1..Len(failed_events) :
          failed_events[i].retry_count = MAX_RETRIES + 1

C5_DueJobVisible ==
    \A w \in Workers :
       worker[w].pc \in {"retry_remove", "retry_process"} =>
          \A j \in Range(worker[w].ready) :
             j \in Members(retry_queue) \cup Range(webhook_queue)

(***************************************************************************)
(* C6.  Under fair scheduling of the worker loop, every job that entered   *)
(* webhook_queue eventually is stored (its handler returned True) or dead  *)
(* (in failed_events), with no further arrival needed.                     *)
(***************************************************************************)
C6_EveryJobEnds ==
    \A e \in EventIds : (e \in arrived) ~> (e \in finished \/ Dead(e))

(***************************************************************************)
(* C7.  When a worker is killed, every job it had taken and not finished   *)
(* is still in webhook_queue or retry_queue, with its retry_count          *)
(* unchanged, to be delivered again.                                       *)
(***************************************************************************)
C7_KilledJobRedelivered ==
    [][\A w \in Workers :
          (worker[w].pc # "killed" /\ worker'[w].pc = "killed") =>
             \A j \in InFlight(w) :
                j \in Range(webhook_queue') \cup Members(retry_queue')]_vars

(***************************************************************************)
(* C8.  At every moment at most one copy of a job with a given event_id    *)
(* exists across webhook_queue, retry_queue, failed_events and the jobs    *)
(* being processed by the workers.                                         *)
(***************************************************************************)
C8_OneCopyPerEvent == \A e \in EventIds : Copies(e) <= 1

(***************************************************************************)
(* Vocabulary of the store properties.                                     *)
(***************************************************************************)
TokenRow(S) == SelectByAddress(S.tokens, TokenAddress)

IsScam(S) == TokenRow(S) # << >> /\ TokenRow(S)[1].is_scam = "T"

\* A token row with each child id replaced by whether a child is linked.
RowView(r) ==
    [c \in Columns |-> IF c \in DOMAIN NoIds THEN (IF r[c] # 0 THEN 1 ELSE 0)
                       ELSE r[c]]

TokenView(S) == { RowView(r) : r \in S.tokens }

\* The shared state after the runs of seq, one after the other, from S.
RECURSIVE RunAll(_, _)
RunAll(S, seq) ==
    IF seq = << >> THEN S
    ELSE RunAll(RunHandler(S, StartCtx(seq[1].job, seq[1].resp), now).S, Tail(seq))

\* The orders in which the runs of seq can be executed sequentially.
Orders(seq) ==
    { [i \in 1..Len(seq) |-> seq[p[i]]] : p \in Permutations(1..Len(seq)) }

(***************************************************************************)
(* C3.  The scam flag is terminal: when the stored row had is_scam true    *)
(* before a group of jobs was taken, then during and after their runs, in  *)
(* every interleaving, the token row is what it was (is_scam stays true)   *)
(* and the notification queue has gained nothing.                          *)
(***************************************************************************)
C3_ScamRowTerminal ==
    (episode.conc # << >> /\ IsScam(episode.base)) =>
        /\ tokens = episode.base.tokens
        /\ notification_queue = episode.base.notification_queue

(***************************************************************************)
(* C4.  Child ids are preserved: a child id that the token row had before  *)
(* a group of jobs was taken is the row's child id during and after their  *)
(* runs.                                                                   *)
(***************************************************************************)
C4_ChildIdsPreserved ==
    (episode.conc # << >> /\ TokenRow(episode.base) # << >>) =>
        /\ TokenRow(Shared) # << >>
        /\ \A c \in DOMAIN NoIds :
              TokenRow(episode.base)[1][c] # 0 =>
                 TokenRow(Shared)[1][c] = TokenRow(episode.base)[1][c]

(***************************************************************************)
(* C9.  Concurrent runs for the token converge: when overlapping runs, all *)
(* given the same collaborator replies, have returned, the store holds at  *)
(* most one row for the token, with the field values and child links that  *)
(* the same runs leave in some sequential order.                           *)
(***************************************************************************)
C9_SerialOutcome ==
    (/\ Quiescent
     /\ episode.conc # << >>
     /\ \A i \in 1..Len(episode.conc) : episode.conc[i].resp = episode.conc[1].resp)
    =>
        /\ Cardinality(tokens) <= 1
        /\ \E o \in Orders(episode.conc) :
              TokenView(Shared) = TokenView(RunAll(episode.base, o))

(***************************************************************************)
(* C10.  The new_pair path is idempotent: from any store that holds the    *)
(* token, not a scam, processing a new_pair job twice with the same        *)
(* replies leaves, after the second run, the token row that the first run  *)
(* left, child ids included.                                               *)
(***************************************************************************)
C10_NewPairIdempotent ==
    (Quiescent /\ TokenRow(Shared) # << >> /\ ~IsScam(Shared)) =>
        \A resp \in { r \in StoreReplies : r.audit # "scam" } :
           LET job == NewJob(runs + 1, "new_pair", PairAddress)
               first == RunHandler(Shared, StartCtx(job, resp), now)
               second == RunHandler(first.S, StartCtx(job, resp), now)
           IN  second.S.tokens = first.S.tokens

(***************************************************************************)
(* The gateway's last request, for the properties below.                   *)
(***************************************************************************)
Handled == gateway.n > 0

\* The reasons for which a signature check fails.
MissingHeader(c) == ~c.dev_mode /\ c.header = Null

WrongDigest(c) ==
    ~c.dev_mode /\ c.header # Null /\ strip_0x(c.header) # keccak_hex

UnsetSecret(c) == ~c.dev_mode /\ ~c.secret

DigestException(c) == ~c.dev_mode /\ ~c.readable

SignatureFails(c) ==
    MissingHeader(c) \/ WrongDigest(c) \/ UnsetSecret(c) \/ DigestException(c)

Verified == Handled /\ ~SignatureFails(gateway.req.cred)

\* The jobs that the last request pushed.
Pushed == SubSeq(webhook_queue, Len(gateway.before) + 1, Len(webhook_queue))

Classified == get_event_type(gateway.req.payload)

DistinctAddresses ==
    { a \in Range(gateway.req.payload.logs) : a # Null }

\* A confirmed payload handled with a verified signature and Redis reachable.
ConfirmedPayload ==
    /\ Verified
    /\ gateway.req.body = "payload"
    /\ gateway.req.payload.confirmed
    /\ gateway.req.redis = "ok"

\* C12: for a confirmed payload classified new_token or ownership_renounced
\* the gateway pushes exactly one job per distinct log address, and for one
\* classified new_pair or lock_lp it pushes exactly one job.
C12_OneJobPerAddress ==
    ConfirmedPayload =>
        /\ Classified \in {"new_token", "ownership_renounced"} =>
              /\ Len(Pushed) = Cardinality(DistinctAddresses)
              /\ { Pushed[i].address : i \in DOMAIN Pushed } = DistinctAddresses
              /\ \A i \in DOMAIN Pushed : Pushed[i].event_type = Classified
        /\ Classified \in {"new_pair", "lock_lp"} =>
              /\ Len(Pushed) = 1
              /\ Pushed[1].event_type = Classified

\* C18: once the signature is verified, the handler answers a payload with
\* an HTTP 2xx status on every path, an internal exception included (here
\* even with Redis reachable).
C18_Always2xx ==
    (Verified /\ gateway.req.body = "payload" /\ gateway.req.redis = "ok") =>
        gateway.status \in 200..299

\* C19: a request with a verified signature and a missing or empty body is
\* answered with HTTP 400 and nothing is pushed to webhook_queue.
C19_MissingBody400 ==
    (Verified /\ gateway.req.body \in {"none", "empty"}) =>
        gateway.status = 400 /\ webhook_queue = gateway.before

\* C20: when the signature check fails, for whichever reason, the gateway
\* answers HTTP 200 with the one fixed body and leaves webhook_queue as it
\* was.
C20_FailedSignatureGeneric ==
    (Handled /\ SignatureFails(gateway.req.cred)) =>
        /\ gateway.status = 200
        /\ gateway.message = "Nice try"
        /\ webhook_queue = gateway.before

\* A missing header rejected while jobs are queued.
C20_Witness ==
    /\ Handled
    /\ MissingHeader(gateway.req.cred)
    /\ gateway.before # << >>
    /\ gateway.status = 200

\* Worker w takes a step of a new_pair job that has not passed its lookup,
\* while the token is stored with is_scam = true.
ScamPairStep(w) ==
    /\ worker[w].h.job.event_type = "new_pair"
    /\ worker[w].h.pc \in {"start", "np_lookup"}
    /\ IsScam(Shared)
    /\ worker'[w] # worker[w]

\* C13: a new_pair job for a token stored with is_scam = true returns
\* success from its lookup, and its steps change neither the store nor
\* notification_queue, retry_queue or failed_events.
C13_ScamPairNoEffect ==
    [][\A w \in Workers :
          ScamPairStep(w) =>
             /\ Shared' = Shared
             /\ worker[w].h.pc = "start" => worker'[w].h.pc = "np_lookup"
             /\ worker[w].h.pc = "np_lookup" =>
                   /\ worker'[w].h.pc = "done"
                   /\ worker'[w].h.res = "ok"
                   /\ worker[w].h.job.event_id \in finished']_vars

\* A new_pair job, run alone on a token stored as a scam, has returned
\* success and the shared state is the one it found.
C13_Witness ==
    /\ Len(episode.conc) = 1
    /\ episode.conc[1].job.event_type = "new_pair"
    /\ IsScam(episode.base)
    /\ Quiescent
    /\ \E w \in Workers :
          /\ worker[w].h.job = episode.conc[1].job
          /\ worker[w].h.pc = "done"
          /\ worker[w].h.res = "ok"
    /\ Shared = episode.base

(***************************************************************************)
(* The last call of apply_filters, for the properties below.               *)
(***************************************************************************)
Called == filtering.result # "none"

\* Every field of filter record f is absent or blank.
BlankFilter(f) ==
    /\ \A k \in {"buy_tax", "sell_tax", "locked_lp"} : f[k] \in {NullNum, Blank}
    /\ \A k \in {"risk_level", "classification", "alert_type"} : f[k] = ""
    /\ \A k \in {"contract_verified", "has_social"} : f[k] = Null
    /\ f.blockchains = {}

\* C14: apply_filters returns true for every snapshot when every field of
\* the filter record is absent or blank.
C14_BlankFilterPasses ==
    (Called /\ BlankFilter(filtering.filter)) => filtering.result = "true"

\* C15: the "dex listing" selector passes the event-type check exactly for
\* new_pair and lock_lp snapshots, and the new-token selector exactly for
\* new_token snapshots.
C15_DexListingCoversLockLp ==
    Called =>
        /\ filtering.filter.alert_type = "new dex listing" =>
              (event_type_check(filtering.filter, filtering.snapshot)
                 <=> filtering.snapshot.event_type \in {"new_pair", "lock_lp"})
        /\ filtering.filter.alert_type = "new tge" =>
              (event_type_check(filtering.filter, filtering.snapshot)
                 <=> filtering.snapshot.event_type = "new_token")

\* C16: a filter whose buy_tax, sell_tax or locked_lp cannot be parsed as a
\* number makes apply_filters return false, for every snapshot: it neither
\* returns true nor raises.
C16_UnparsableFailsClosed ==
    (Called /\ \E k \in {"buy_tax", "sell_tax", "locked_lp"} :
                  filtering.filter[k] = Unparsable)
        => filtering.result = "false"

RECURSIVE SumSeq(_)
SumSeq(s) == IF s = << >> THEN 0 ELSE Head(s) + SumSeq(Tail(s))

\* The sends issued within the second that ends now.
SentWithinSecond == SumSeq(limiter.sent_at)

\* At most RATE_LIMIT sends within the second.
RateWithinBudget == SentWithinSecond <= RATE_LIMIT

\* A consumer that is about to read or to write messages_sent holds the lock.
CounterUnderLock ==
    \A c \in Consumers :
        limiter.pc[c] \in {"load", "store"} => limiter.lock = c

\* C11: the consumer threads together issue at most 30 sends within any one
\* second, and messages_sent is read and written only by the holder of
\* rate_limit_lock.
C11_SharedRateBudget == RateWithinBudget /\ CounterUnderLock

\* The hex digits of a header in lower case.
lower(h) == IF h = "DIGEST" THEN "digest" ELSE h

\* What a signature check without the bypass is to answer: the header is
\* there, the secret is set, and the header equals the digest once its '0x'
\* is stripped and the case of its digits is ignored.
SignatureMatches(c) ==
    /\ c.header # Null
    /\ c.secret
    /\ lower(strip_0x(c.header)) = keccak_hex

\* C21: with the bypass off, the signature check answers true exactly when
\* the header, stripped of a leading 0x and compared without regard to case,
\* equals the hex digest of body and secret; a missing header or an unset
\* secret answers false.
C21_SignatureIffDigest ==
    (Handled /\ ~gateway.req.cred.dev_mode /\ gateway.req.cred.readable) =>
        (verify_moralis_signature(gateway.req.cred)
            <=> SignatureMatches(gateway.req.cred))

\* A request whose payload was read and whose confirmed flag is false or
\* absent.
Unconfirmed ==
    /\ Verified
    /\ gateway.req.body = "payload"
    /\ ~gateway.req.payload.confirmed

\* C24: a payload whose confirmed flag is false or absent is acknowledged
\* with HTTP 200 and leaves the job queue as it was, whatever its event type.
C24_UnconfirmedAcknowledged ==
    Unconfirmed =>
        /\ gateway.status = 200
        /\ webhook_queue = gateway.before

\* An unconfirmed lock call, arriving after a job was queued, was
\* acknowledged and queued nothing.
C24_Witness ==
    /\ Unconfirmed
    /\ gateway.req.payload.abi = "LockLPToken"
    /\ gateway.req.payload.tx.lock
    /\ word(gateway.req.payload.tx.words, 2) > 0
    /\ gateway.req.redis = "ok"
    /\ gateway.before # << >>
    /\ gateway.status = 200
    /\ webhook_queue = gateway.before

\* The lock call of a payload: the ABI names it and the first transaction's
\* input carries, after the selector, a nonzero amount.
LockCall(p) ==
    /\ p.abi = "LockLPToken"
    /\ p.tx.present
    /\ p.tx.lock
    /\ word(p.tx.words, 2) > 0

\* The event that the first log's topic 0 decides.
FirstLogEvent(p) ==
    IF p.logs = << >> THEN "unknown"
    ELSE IF p.topic0 = "OwnershipTransferred"
    THEN IF p.new_owner = "burn" THEN "ownership_renounced" ELSE "new_token"
    ELSE IF p.topic0 = "PairCreated" THEN "new_pair"
    ELSE "unknown"

PriorityOrder(p) == IF LockCall(p) THEN "lock_lp" ELSE FirstLogEvent(p)

\* C22: a confirmed payload is classified lock_lp exactly when the ABI names
\* the lock call and the first transaction's input decodes to a nonzero
\* amount; otherwise the first log's topic 0 decides: an ownership transfer
\* is ownership_renounced to a burn address and new_token otherwise, a pair
\* creation is new_pair, anything else is unknown.
C22_ClassificationOrder ==
    (Verified /\ gateway.req.body = "payload" /\ gateway.req.payload.confirmed)
        => Classified = PriorityOrder(gateway.req.payload)

\* A confirmed payload that is neither a lock call nor recognised by its
\* first log: no transaction list under a lock ABI, no logs, a first log
\* without topics or with a topic 0 of another event.
Malformed(p) == p.confirmed /\ PriorityOrder(p) = "unknown"

\* C23: a confirmed payload that is malformed or unrecognised is classified
\* unknown and dropped: the request is acknowledged as a skip, nothing is
\* enqueued, and the classification does not end in an error.
C23_MalformedDropped ==
    (/\ Verified
     /\ gateway.req.body = "payload"
     /\ gateway.req.redis = "ok"
     /\ Malformed(gateway.req.payload))
        => /\ Classified = "unknown"
           /\ gateway.status = 200
           /\ webhook_queue = gateway.before

\* The replies with which the upsert of the token fails (it returns an
\* error, returns no row or raises) once the job passed the ERC-20 test.
StoreFailures == { r \in QueueReplies : r.err = "store" /\ r.basic }

\* The job that worker w is about to hand to process_webhook.
AboutToProcess(w) == worker[w].pc = "process" /\ worker[w].h.pc = "idle"

\* C25: when the upsert of the token fails during a new_token job, the job
\* returns failure and has been handed to the retry queue (or, its retries
\* used up, to failed_events); it is not reported as success.
C25_StoreFailureRetried ==
    \A w \in Workers :
        (AboutToProcess(w) /\ worker[w].h.job.event_type = "new_token") =>
            \A resp \in StoreFailures :
                LET r == Processed(worker[w].h.job, resp)
                IN  /\ r.h.res = "fail"
                    /\ \/ r.S.retry_queue # retry_queue
                       \/ r.S.failed_events # failed_events

\* The time at which job j, recorded after its k-th failure at time
\* j.last_retry, is ready: RETRY_DELAY * 2^(k-1) later.
ReadyAt(j) == j.last_retry + RETRY_DELAY * (2 ^ (j.retry_count - 1))

\* The jobs that worker w has read from retry_queue to process them again.
Reprocessing(w) ==
    IF worker[w].pc \in {"retry_remove", "retry_process"}
    THEN Range(worker[w].ready) ELSE {}

\* C28: the k-th failure of a job (1 <= k <= MAX_RETRIES) puts it in
\* retry_queue with ready_at = now + RETRY_DELAY * 2^(k-1), now being the
\* time of the failure, and no job is processed again before its ready_at.
C28_BackoffSchedule ==
    /\ \A x \in retry_queue :
          /\ x.member.retry_count \in 1..MAX_RETRIES
          /\ x.score = ReadyAt(x.member)
    /\ \A w \in Workers : \A j \in Reprocessing(w) : now >= ReadyAt(j)

\* A job that failed MAX_RETRIES times is processed again, 4 * RETRY_DELAY
\* after its third failure.
C28_Witness ==
    \E w \in Workers :
        /\ worker[w].pc = "retry_process"
        /\ worker[w].ready # << >>
        /\ Head(worker[w].ready).retry_count = MAX_RETRIES
        /\ now = Head(worker[w].ready).last_retry + 4 * RETRY_DELAY

\* The row that tracks the pair of a lock_lp job, as a store holds it.
PairRow(S, job) == SelectByPair(S.tokens, job.lp_token)

Untracked(S, job) == PairRow(S, job) = << >>

ScamPair(S, job) == PairRow(S, job) # << >> /\ PairRow(S, job)[1].is_scam = "T"

\* A step of worker w's lock_lp handler, up to and including its lookup,
\* while the LP address matches no token or a token marked as a scam.
LockSkipStep(w) ==
    /\ worker[w].h.job.event_type = "lock_lp"
    /\ worker[w].h.job.lp_token # Null
    /\ worker[w].h.pc \in {"start", "ll_lookup"}
    /\ Untracked(Shared, worker[w].h.job) \/ ScamPair(Shared, worker[w].h.job)
    /\ worker'[w] # worker[w]

\* C30: a lock_lp job whose LP address matches no tracked token, or a token
\* with is_scam = true, returns success from its lookup, and its steps
\* change neither the store nor notification_queue, retry_queue or
\* failed_events.
C30_LockSkipNoEffect ==
    [][\A w \in Workers :
          LockSkipStep(w) =>
             /\ Shared' = Shared
             /\ worker[w].h.pc = "start" => worker'[w].h.pc = "ll_lookup"
             /\ worker[w].h.pc = "ll_lookup" =>
                   /\ worker'[w].h.pc = "done"
                   /\ worker'[w].h.res = "ok"
                   /\ worker[w].h.job.event_id \in finished']_vars

\* A lock_lp job, run alone on a store that tracks no token for its pair,
\* has returned success and the shared state is the one it found.
C30_Witness ==
    /\ Len(episode.conc) = 1
    /\ episode.conc[1].job.event_type = "lock_lp"
    /\ episode.base.tokens # {}
    /\ Untracked(episode.base, episode.conc[1].job)
    /\ Quiescent
    /\ \E w \in Workers :
          /\ worker[w].h.job = episode.conc[1].job
          /\ worker[w].h.pc = "done"
          /\ worker[w].h.res = "ok"
    /\ Shared = episode.base

\* (a) 100 times the sum of percent over the locked holders, 0 when the
\* holders are missing or a locked holder's percent is unusable.
HolderPercent(raw) ==
    LET locked == { i \in DOMAIN raw.lp_holders : raw.lp_holders[i].is_locked = 1 }
        total[S \in SUBSET locked] ==
            IF S = {} THEN 0
            ELSE LET i == CHOOSE i \in S : TRUE
                 IN  raw.lp_holders[i].percent + total[S \ {i}]
    IN  IF ~raw.present THEN 0
        ELSE IF \E i \in locked : raw.lp_holders[i].percent = Unparsable THEN 0
        ELSE total[locked]

\* (b) 100 times the lock's amount over the total LP supply, 0 when either
\* is missing or unusable.
LockPercent(raw, td) ==
    IF /\ raw.present /\ td.present
       /\ td.amount > 0
       /\ raw.lp_total_supply > 0
    THEN (100 * td.amount) \div raw.lp_total_supply
    ELSE 0

Larger(a, b) == IF a >= b THEN a ELSE b

\* C29: sum_locked_lp_percent returns the larger of (a) and (b), each taken
\* as 0 when its inputs are missing or unusable, 0 when neither is usable,
\* and it never raises.
C29_LargerOfTwoMethods ==
    lock_calc.called =>
        lock_calc.result =
            Larger(HolderPercent(lock_calc.raw_results),
                   LockPercent(lock_calc.raw_results, lock_calc.transformed_data))

\* The lookup at site x was given up because the collaborator answered
\* its last call, as every call before it, with a rate-limit error.
RateLimitedOut(x) == fetching.raised[x] = "429"

\* C26: when the source lookup or the audit keeps answering with a
\* rate-limit error, its call site makes at most 3 calls, with backoff
\* between them, and the job then ends in failure, not in success.
C26_RateLimitSurfaced ==
    /\ \A x \in Sites : fetching.calls[x] <= fetch_max_retries
    /\ \A x \in {"source", "audit"} :
          RateLimitedOut(x) =>
             /\ fetching.calls[x] = fetch_max_retries
             /\ fetching.slept[x] = 3 * fetch_base_delay
             /\ fetching.pc = "done" => fetching.res = "fail"

\* A send is under way.
InSend == sending.pc \in {"post", "sleep"}

\* Every queued message was taken and sent to every subscriber.
AllSent ==
    /\ sending.pc = "get"
    /\ sending.queued = 0
    /\ Len(sending.outcomes) = MaxMessages * MaxSubscribers

\* The sleep that follows a rate-limited response lasts the provider's
\* retry_after (the base delay when the response names none).
WaitsRetryAfter ==
    (sending.pc = "sleep" /\ sending.status = "429") =>
        sending.wait = IF sending.parameter = NullNum THEN send_base_delay
                       ELSE sending.parameter

\* No step puts a message back: message_queue only shrinks and
\* notification_queue is left alone.
NeverRequeued ==
    /\ sending'.queued <= sending.queued
    /\ notification_queue' = notification_queue

\* C27: each send makes at most 3 attempts and terminates; after a
\* rate-limited response it waits the provider's retry-after interval; a
\* send that failed is dropped, never re-queued, and the consumer goes on
\* to the remaining subscribers and messages.
C27_SendBoundedAndDropped ==
    /\ [](sending.posts <= send_max_retries /\ WaitsRetryAfter)
    /\ [][NeverRequeued]_vars
    /\ (InSend ~> sending.pc = "sent")
    /\ <>AllSent

\* The first send made its three attempts and failed; the consumer then
\* delivered to the next subscriber, and took the second message although
\* its first send failed as well.
C27_Witness ==
    /\ AllSent
    /\ sending.outcomes[1] = [result |-> "false", posts |-> send_max_retries]
    /\ sending.outcomes[2].result = "true"
    /\ sending.outcomes[3].result = "false"

\* The store's rows with the renounced flag set on the token's row.
Renounced(rows) ==
    { IF r.address = TokenAddress THEN [r EXCEPT !.is_renounced = "T"] ELSE r :
      r \in rows }

\* A step of worker w's ownership_renounced handler.
RenounceStep(w) ==
    /\ worker[w].h.job.event_type = "ownership_renounced"
    /\ worker[w].h.pc \in {"start", "or_update"}
    /\ worker'[w] # worker[w]

\* C31: an ownership_renounced job sets is_renounced on the matching token
\* and changes no other field; on a token already renounced it changes
\* nothing; with no matching token it changes nothing either; in each case
\* it returns success, with nothing put in retry_queue or failed_events.
C31_RenouncedFlagSet ==
    [][\A w \in Workers :
          RenounceStep(w) =>
             /\ worker[w].h.pc = "start" =>
                   Shared' = Shared /\ worker'[w].h.pc = "or_update"
             /\ worker[w].h.pc = "or_update" =>
                   /\ Shared' = [Shared EXCEPT !.tokens = Renounced(tokens)]
                   /\ worker'[w].h.pc = "done"
                   /\ worker'[w].h.res = "ok"]_vars

\* An ownership_renounced job, run alone on a token not yet renounced, has
\* returned success and the row differs in is_renounced only.
C31_Witness ==
    /\ Len(episode.conc) = 1
    /\ episode.conc[1].job.event_type = "ownership_renounced"
    /\ TokenRow(episode.base) # << >>
    /\ TokenRow(episode.base)[1].is_renounced # "T"
    /\ TokenRow(episode.base)[1].dex_pair # Null
    /\ Quiescent
    /\ \E w \in Workers :
          /\ worker[w].h.job = episode.conc[1].job
          /\ worker[w].h.res = "ok"
    /\ tokens = { [TokenRow(episode.base)[1] EXCEPT !.is_renounced = "T"] }

\* The outcomes of a new_token job, by what its collaborators reply.
NotAToken(resp) == resp.err = "none" /\ ~resp.basic

ScamToken(resp) == resp.err = "none" /\ resp.basic /\ resp.audit = "scam"

\* The last job, its replies, and what its handler returned.
LastJob == episode.conc[1].job

LastReplies == episode.conc[1].resp

LastResult == CHOOSE res \in { worker[w].h.res : w \in { v \in Workers :
                                  worker[v].h.job = LastJob } } : TRUE

\* A job of this kind has just been processed, alone.
Ran(kind) ==
    /\ Len(episode.conc) = 1
    /\ LastJob.event_type = kind
    /\ \E w \in Workers : worker[w].h.job = LastJob /\ worker[w].h.pc = "done"

\* The notifications the last job pushed.
PushedNotifications ==
    Len(notification_queue) - Len(episode.base.notification_queue)

\* C32: a new_token job whose introspection yields nothing returns success
\* and leaves the store and the queues as they were; one whose audit flags
\* a scam stores the token, flagged, and pushes no notification; every
\* other new_token job that returns success pushes exactly one.
C32_NewTokenOutcomes ==
    Ran("new_token") =>
        /\ NotAToken(LastReplies) =>
              LastResult = "ok" /\ Shared = episode.base
        /\ ScamToken(LastReplies) =>
              /\ LastResult = "ok"
              /\ IsScam(Shared)
              /\ PushedNotifications = 0
              /\ retry_queue = episode.base.retry_queue
        /\ (LastResult = "ok" /\ LastReplies.basic /\ LastReplies.audit # "scam")
              => PushedNotifications = 1

\* A new_token job whose audit flagged a scam has run on a store that held
\* the token, not flagged, with one notification queued before.
C32_Witness ==
    /\ Ran("new_token")
    /\ ScamToken(LastReplies)
    /\ TokenRow(episode.base) # << >>
    /\ ~IsScam(episode.base)
    /\ Len(episode.base.notification_queue) = 1
    /\ IsScam(Shared)
    /\ Len(notification_queue) = 1

\* The rows stored under the token's natural key.
KeyRows(rows) == { r \in rows : r.address = TokenAddress }

\* Worker w is at the insert of a new_token or new_pair job and takes it
\* while a row with the key is already stored.
ConflictingInsert(w) ==
    /\ worker[w].h.pc \in {"nt_insert", "sp_insert"}
    /\ worker[w].h.resp.err = "none"
    /\ KeyRows(tokens) # {}
    /\ worker'[w] # worker[w]

\* What the insert of worker w sends to the tokens table.
InsertPayload(w) ==
    IdColumns(worker[w].h.ids) @@
        (IF worker[w].h.pc = "nt_insert" THEN NewTokenPayload(worker[w].h)
                                         ELSE NewPairPayload(worker[w].h))

\* C33: under any interleaving of the store calls of new_token and new_pair
\* jobs for one token, the store never holds two rows with the token's
\* natural key and holds one as soon as a job has stored; an insert that
\* meets a stored row writes its payload over that row, and the job goes
\* on to its notification step with no retry entry and no dead letter.
C33_ConflictBecomesUpdate ==
    /\ [](/\ Cardinality(KeyRows(tokens)) <= 1
          /\ (\E w \in Workers : worker[w].h.stored)
                => Cardinality(KeyRows(tokens)) = 1)
    /\ [][\A w \in Workers : ConflictingInsert(w) =>
            /\ tokens' = { Merge(r, InsertPayload(w)) : r \in tokens }
            /\ worker'[w].h.pc = "notify"
            /\ worker'[w].h.stored
            /\ retry_queue' = retry_queue
            /\ failed_events' = failed_events]_vars

\* Two jobs, a new_token and a new_pair, started on an empty store while
\* the other was running, have both stored, neither has returned yet, and
\* one row is held.
C33_Witness ==
    /\ Len(episode.conc) = 2
    /\ { episode.conc[i].job.event_type : i \in 1..2 } = {"new_token", "new_pair"}
    /\ episode.base.tokens = {}
    /\ \A w \in Workers : worker[w].h.stored /\ worker[w].h.pc = "notify"
    /\ retry_queue = {}
    /\ failed_events = << >>
    /\ Cardinality(tokens) = 1

\* Worker w takes a step in which an exception reaches the except clause
\* of start_worker.
EscapeStep(w) ==
    /\ worker[w].pc \in {"retry_process", "blpop", "process"}
    /\ worker'[w] # worker[w]
    /\ worker'[w].h.res = "raised"

\* The entries of retry_queue that worker w had promoted behind the one it
\* was processing.
OtherDueEntries(w) ==
    IF worker[w].pc = "retry_process"
    THEN { worker[w].ready[i] : i \in 2..Len(worker[w].ready) }
    ELSE {}

\* The jobs that are still going to be processed: those in webhook_queue,
\* those in retry_queue, and those a worker holds.
StillToProcess ==
    { webhook_queue'[i] : i \in 1..Len(webhook_queue') }
        \cup { x.member : x \in retry_queue' }
        \cup UNION { { worker'[w].ready[i] : i \in 1..Len(worker'[w].ready) } :
                     w \in Workers }

\* C34: an exception that reaches the loop of start_worker does not end
\* it: the worker starts its next iteration at the scheduler step; and the
\* other entries promoted in the same scheduler step are still going to be
\* processed.
C34_LoopSurvivesErrors ==
    [][\A w \in Workers : EscapeStep(w) =>
          /\ worker'[w].pc = "retry_read"
          /\ OtherDueEntries(w) \subseteq StillToProcess]_vars

\* The loop's part of it alone.
LoopGoesOn ==
    [][\A w \in Workers : EscapeStep(w) => worker'[w].pc = "retry_read"]_vars

\* The token's row carries is_renounced = true.
IsRenounced(rows) == \E r \in KeyRows(rows) : r.is_renounced = "T"

\* C35: once the stored row carries is_renounced = true, no step of any
\* job, under any interleaving of two workers, leaves it with another
\* value.
C35_RenouncedMonotonic ==
    [][IsRenounced(tokens) => IsRenounced(tokens')]_vars

\* The same for jobs that run one after the other.
RenouncedMonotonicSerially ==
    [](IsRenounced(episode.base.tokens) => IsRenounced(tokens))

\* The columns the security audit fills (the model's rows carry no tax
\* columns; the store routine treats them as it treats risk_level).
AuditColumns == {"risk_level", "is_scam", "liquidity_locked"}

\* The last job was a new_pair or lock_lp job whose audit call failed, run
\* on a store that held the token, not flagged as a scam.
AuditFailedOnExisting ==
    /\ Ran("new_pair") \/ Ran("lock_lp")
    /\ LastReplies.err = "none"
    /\ LastReplies.audit = "fail"
    /\ TokenRow(episode.base) # << >>
    /\ ~IsScam(episode.base)

\* C37: a new_pair or lock_lp job whose audit call fails leaves the audit's
\* columns of the stored row as they were.
C37_AuditFailureKeepsColumns ==
    AuditFailedOnExisting =>
        \A c \in AuditColumns : TokenRow(Shared)[1][c] = TokenRow(episode.base)[1][c]

\* The last job's store routine did not write the token's row.
PersistenceFailed == LastReplies.err = "store" /\ LastReplies.basic

\* The last job was put on retry_queue or dead-lettered in this attempt.
ScheduledForRetry ==
    \/ retry_queue # episode.base.retry_queue
    \/ failed_events # episode.base.failed_events

\* C36: a job of any event type whose store routine failed, or which was
\* scheduled for retry, has pushed no notification in that attempt.
C36_NotifyOnlyAfterUpsert ==
    ((\E kind \in EventTypes : Ran(kind)) /\ (PersistenceFailed \/ ScheduledForRetry))
        => PushedNotifications = 0

\* The retry half of it alone.
RetriedPushedNothing ==
    ((\E kind \in EventTypes : Ran(kind)) /\ ScheduledForRetry)
        => PushedNotifications = 0

\* The ranks of the known risk levels: Safe < Low < Medium < High.
KnownRanks == 0..3

\* C38: with a risk ceiling in the filter, apply_filters returns true only
\* for a snapshot whose risk level is a known one ranked at or below the
\* ceiling.
C38_RiskCeilingFailsClosed ==
    (Called /\ filtering.filter.risk_level # "" /\ filtering.result = "true") =>
        /\ risk_level_mapping(filtering.snapshot.risk_level) \in KnownRanks
        /\ risk_level_mapping(filtering.snapshot.risk_level)
              <= risk_level_mapping(filtering.filter.risk_level)

\* The same for snapshots that carry a known risk level.
KnownRiskRespectsCeiling ==
    ( /\ Called
      /\ filtering.filter.risk_level # ""
      /\ filtering.result = "true"
      /\ risk_level_mapping(filtering.snapshot.risk_level) \in KnownRanks ) =>
        risk_level_mapping(filtering.snapshot.risk_level)
            <= risk_level_mapping(filtering.filter.risk_level)

\* The subscribers whose record matches the message.
MatchingSubscribers ==
    { i \in 1..Len(fanout.records) : fanout.records[i] \in Matching }

\* C39: when the fan-out of a message has ended, a send was issued to every
\* subscriber whose record matches, whatever the other records were.
C39_FanoutIsolated ==
    fanout.pc = "done" => MatchingSubscribers \subseteq fanout.dispatched

\* The same when no record fails to decode: a send that fails keeps no
\* other subscriber from being served.
FailedSendIsolated ==
    (fanout.pc = "done" /\ ~fanout.raised) =>
        MatchingSubscribers \subseteq fanout.dispatched

\* user:{u} exists exactly when user u can be served.
CacheMembership ==
    \A u \in CacheUsers : cache.user[u] # Null <=> Cacheable(cache.db[u])

\* Every telegram_map entry points to a user whose record carries that
\* telegram id.
MapPointsBack ==
    \A tg \in TelegramIds :
        cache.telegram_map[tg] # 0 => cache.user[cache.telegram_map[tg]] = tg

\* C40: after any sequence of user change events, user:{id} exists exactly
\* for the users with a subscription, user information and a linked
\* telegram account, and every telegram_map:{tg} names a user whose cached
\* record has telegram_id = tg.
C40_CacheConsistent == CacheMembership /\ MapPointsBack

====
